---- MODULE Spec2Model ----
(***************************************************************************)
(* sources-database-populator: the in-memory source types database         *)
(* (package source_types_db) and the concurrent run mode of the populator  *)
(* (package main, the version built on goroutines, wait groups and the     *)
(* config.ConcurrentRequests channel).                                     *)
(*                                                                         *)
(* Spec         the concurrent run: main, the goroutines it starts, the    *)
(*              throttling channel and the five counters.                  *)
(* SpecCatalog  the build of the database by InitializeDatabase from the   *)
(*              two remote responses, followed by the Get* queries.        *)
(***************************************************************************)
EXTENDS Integers, Sequences, FiniteSets, TLC

(***************************************************************************)
(* Bounds of the model.                                                    *)
(***************************************************************************)
MaxTenants == 2
MaxSources == 2
MaxFanOut == 2
MaxConcurrent == 2
MaxTasks == 4
MaxFaults == 1
MaxSourceTypesLoad == 2
MaxApplicationTypesLoad == 2
MaxCalls == 4

\* The longest value of an environment variable.
MaxEnvLen == 2

\* The most failures of a run of the sequential program.
MaxRetries == 2

(***************************************************************************)
(* Go values: slices (nil or not), maps with the zero value for a missing  *)
(* key.                                                                    *)
(***************************************************************************)
NilSlice == [nil |-> TRUE, elems |-> <<>>]

MkSlice(s) == [nil |-> FALSE, elems |-> s]

\* append(sl, xs...): appending nothing gives sl back, nil included.
GoAppend(sl, xs) ==
  IF Len(xs.elems) = 0 THEN sl ELSE MkSlice(sl.elems \o xs.elems)

EmptyMap == <<>>

MapGet(m, k, zero) == IF k \in DOMAIN m THEN m[k] ELSE zero

MapPut(m, k, v) == [x \in (DOMAIN m) \cup {k} |-> IF x = k THEN v ELSE m[x]]

Range(s) == {s[i] : i \in DOMAIN s}

\* The keys of a map as a list (the order of "range" over a map is not
\* specified; the list is only ever indexed at random).
RECURSIVE SetToSeq(_)
SetToSeq(S) ==
  IF S = {} THEN <<>>
  ELSE LET x == CHOOSE y \in S : TRUE IN <<x>> \o SetToSeq(S \ {x})

(***************************************************************************)
(* package source_types_db                                                 *)
(***************************************************************************)
ZeroApplicationType == [Id |-> "", CompatibleAuthentications |-> NilSlice]

ZeroSourceType ==
  [Id |-> "", Name |-> "", CompatibleAuthentications |-> NilSlice,
   CompatibleApplicationTypes |-> EmptyMap]

ExcludedSourceTypeName == "rh-marketplace"

NoAuthenticationSentinel ==
  "cloud-meter-app-does-not-have-azure-or-google-supported-authentication-types"

\* rand.Intn(0) and an index out of range end the process.
Panic == "panic"

\* The two maps of the package as one value.
EmptyDb == [sourceNameId |-> EmptyMap, sourceTypes |-> EmptyMap]

\* CreateSourceType writing the name of an entry it finds and leaving the
\* rest of the entry.
CreateSourceType_KeepsEntry(db, sourceTypeId, sourceTypeName) ==
  [sourceNameId |-> MapPut(db.sourceNameId, sourceTypeName, sourceTypeId),
   sourceTypes |->
     MapPut(db.sourceTypes, sourceTypeId,
            [MapGet(db.sourceTypes, sourceTypeId, ZeroSourceType)
               EXCEPT !.Id = sourceTypeId, !.Name = sourceTypeName])]

CreateSourceType(db, sourceTypeId, sourceTypeName) ==
  [sourceNameId |-> MapPut(db.sourceNameId, sourceTypeName, sourceTypeId),
   sourceTypes |->
     MapPut(db.sourceTypes, sourceTypeId,
            [Id |-> sourceTypeId, Name |-> sourceTypeName,
             CompatibleAuthentications |-> NilSlice,
             CompatibleApplicationTypes |-> EmptyMap])]

AddAuthenticationType(db, sourceTypeId, authenticationType) ==
  LET sourceType == MapGet(db.sourceTypes, sourceTypeId, ZeroSourceType)
      appended ==
        [sourceType EXCEPT !.CompatibleAuthentications =
           GoAppend(@, MkSlice(<<authenticationType>>))]
  IN [db EXCEPT !.sourceTypes = MapPut(@, sourceTypeId, appended)]

\* Every list of supported_authentication_types as one list.
AllDeclaredKinds(supportedAuthenticationTypes) ==
  SetToSeq(UNION {Range(supportedAuthenticationTypes[n].elems) :
                    n \in DOMAIN supportedAuthenticationTypes})

\* AddCompatibleOne giving the application type every declared kind, whatever
\* the name it was declared under.
AddCompatibleOne_KindsOfEveryName(db, applicationTypeId, sst, supportedAuthenticationTypes) ==
  LET sstId == MapGet(db.sourceNameId, sst, "")
      sourceType == MapGet(db.sourceTypes, sstId, ZeroSourceType)
      ok == applicationTypeId \in DOMAIN sourceType.CompatibleApplicationTypes
      perName == MkSlice(AllDeclaredKinds(supportedAuthenticationTypes))
      created ==
        [sourceType EXCEPT !.CompatibleApplicationTypes =
           MapPut(@, applicationTypeId,
                  [Id |-> applicationTypeId,
                   CompatibleAuthentications |-> perName])]
  IN IF ok
     THEN [db EXCEPT !.sourceTypes = MapPut(@, sstId, sourceType)]
     ELSE [db EXCEPT !.sourceTypes = MapPut(@, sstId, created)]

\* The body of the loop of AddCompatibleApplicationType for one name.  In
\* the "ok" branch the appended list is held by the local copy appType only:
\* the entry of the map keeps the list it had.
AddCompatibleOne(db, applicationTypeId, sst, supportedAuthenticationTypes) ==
  LET sstId == MapGet(db.sourceNameId, sst, "")
      sourceType == MapGet(db.sourceTypes, sstId, ZeroSourceType)
      ok == applicationTypeId \in DOMAIN sourceType.CompatibleApplicationTypes
      perName == MapGet(supportedAuthenticationTypes, sourceType.Name, NilSlice)
      created ==
        [sourceType EXCEPT !.CompatibleApplicationTypes =
           MapPut(@, applicationTypeId,
                  [Id |-> applicationTypeId,
                   CompatibleAuthentications |-> perName])]
  IN IF ok
     THEN [db EXCEPT !.sourceTypes = MapPut(@, sstId, sourceType)]
     ELSE [db EXCEPT !.sourceTypes = MapPut(@, sstId, created)]

RECURSIVE AddCompatibleApplicationType(_, _, _, _)
AddCompatibleApplicationType(db, applicationTypeId, supportedSourceTypes, authTypes) ==
  IF supportedSourceTypes = <<>>
  THEN db
  ELSE AddCompatibleApplicationType(
         AddCompatibleOne(db, applicationTypeId, Head(supportedSourceTypes),
                          authTypes),
         applicationTypeId, Tail(supportedSourceTypes), authTypes)

\* The values a call can return (Panic when rand.Intn is given 0).
GetRandomAuthenticationTypeForApplication(db, sourceTypeId, applicationTypeId) ==
  LET st == MapGet(db.sourceTypes, sourceTypeId, ZeroSourceType)
      appTypes ==
        MapGet(st.CompatibleApplicationTypes, applicationTypeId,
               ZeroApplicationType)
  IN IF appTypes.CompatibleAuthentications.nil
     THEN {NoAuthenticationSentinel}
     ELSE IF Len(appTypes.CompatibleAuthentications.elems) = 0
          THEN {Panic}
          ELSE Range(appTypes.CompatibleAuthentications.elems)

\* The sentinel of GetRandomAuthenticationTypeForApplication returned for a
\* source type without kinds.
GetRandomAuthenticationTypeForSource_SentinelOnEmpty(db, sourceTypeId) ==
  LET st == MapGet(db.sourceTypes, sourceTypeId, ZeroSourceType)
  IN IF Len(st.CompatibleAuthentications.elems) = 0
     THEN {NoAuthenticationSentinel}
     ELSE Range(st.CompatibleAuthentications.elems)

\* The index drawn in 0..len instead of 0..len-1.
GetRandomAuthenticationTypeForSource_IndexUpToLen(db, sourceTypeId) ==
  LET st == MapGet(db.sourceTypes, sourceTypeId, ZeroSourceType)
  IN Range(st.CompatibleAuthentications.elems) \cup {Panic}

GetRandomAuthenticationTypeForSource(db, sourceTypeId) ==
  LET st == MapGet(db.sourceTypes, sourceTypeId, ZeroSourceType)
  IN IF Len(st.CompatibleAuthentications.elems) = 0
     THEN {Panic}
     ELSE Range(st.CompatibleAuthentications.elems)

GetApplicationTypes(db, sourceTypeId) ==
  LET st == MapGet(db.sourceTypes, sourceTypeId, ZeroSourceType)
  IN {st.CompatibleApplicationTypes[a] : a \in DOMAIN st.CompatibleApplicationTypes}

\* GetRandomApplicationType is called by createApplications; it picks one of
\* the application types GetApplicationTypes returns.
GetRandomApplicationType(db, sourceTypeId) ==
  IF GetApplicationTypes(db, sourceTypeId) = {}
  THEN {Panic}
  ELSE {a.Id : a \in GetApplicationTypes(db, sourceTypeId)}

\* The values GetRandomSourceType can return once the keys list is keys.
GetRandomSourceTypeFrom(db, keys) ==
  IF Len(keys.elems) = 0
  THEN {Panic}
  ELSE {MapGet(db.sourceTypes, k, ZeroSourceType).Id : k \in Range(keys.elems)}

\* The body of the loop of getSourceTypes for one element of the response.
RECURSIVE AddAuthenticationTypes(_, _, _)
AddAuthenticationTypes(db, sourceTypeId, auths) ==
  IF auths = <<>>
  THEN db
  ELSE AddAuthenticationTypes(
         AddAuthenticationType(db, sourceTypeId, Head(auths)),
         sourceTypeId, Tail(auths))

\* The loop body without the test of the name.
LoadSourceType_NoExclusion(db, st) ==
  AddAuthenticationTypes(CreateSourceType(db, st.Id, st.Name),
                         st.Id, st.Authentication)

LoadSourceType(db, st) ==
  IF st.Name = ExcludedSourceTypeName
  THEN db
  ELSE AddAuthenticationTypes(CreateSourceType(db, st.Id, st.Name),
                              st.Id, st.Authentication)

LoadApplicationType(db, appType) ==
  AddCompatibleApplicationType(db, appType.Id, appType.SupportedSourceTypes,
                               appType.SupportedAuthenticationTypes)

RECURSIVE getSourceTypes(_, _)
getSourceTypes(db, data) ==
  IF data = <<>> THEN db
  ELSE getSourceTypes(LoadSourceType(db, Head(data)), Tail(data))

RECURSIVE getApplicationTypes(_, _)
getApplicationTypes(db, data) ==
  IF data = <<>> THEN db
  ELSE getApplicationTypes(LoadApplicationType(db, Head(data)), Tail(data))

\* InitializeDatabase with its two calls in the other order.
InitializeDatabase_ApplicationTypesFirst(db, response) ==
  getSourceTypes(getApplicationTypes(db, response.applicationTypes),
                 response.sourceTypes)

InitializeDatabase(db, response) ==
  getApplicationTypes(getSourceTypes(db, response.sourceTypes),
                      response.applicationTypes)


(***************************************************************************)
(* What the two responses held, kept next to the database to state what    *)
(* the database must hold.                                                 *)
(***************************************************************************)
ReadSourceTypes(seen, data) ==
  seen \cup {[Id |-> data[i].Id, Name |-> data[i].Name,
               Authentication |-> data[i].Authentication] : i \in DOMAIN data}

DeclaredBy(appType) ==
  UNION {{<<n, appType.Id, k>> :
            k \in Range(appType.SupportedAuthenticationTypes[n].elems)} :
         n \in DOMAIN appType.SupportedAuthenticationTypes}

ReadDeclared(seen, data) ==
  seen \cup UNION {DeclaredBy(data[i]) : i \in DOMAIN data}

\* One list per name of supported_source_types that is the name of a source
\* type of the database: the list supported_authentication_types holds for
\* that name.
RECURSIVE ContributedBy(_, _, _, _, _)
ContributedBy(given, db, applicationTypeId, names, auths) ==
  IF names = <<>>
  THEN given
  ELSE LET n == Head(names)
           pair == <<MapGet(db.sourceNameId, n, ""), applicationTypeId>>
           batch == MapGet(auths, n, NilSlice).elems
           next ==
             IF n \in DOMAIN db.sourceNameId
             THEN MapPut(given, pair, Append(MapGet(given, pair, <<>>), batch))
             ELSE given
       IN ContributedBy(next, db, applicationTypeId, Tail(names), auths)

RECURSIVE ReadContributed(_, _, _)
ReadContributed(given, db, data) ==
  IF data = <<>>
  THEN given
  ELSE ReadContributed(
         ContributedBy(given, db, Head(data).Id,
                       Head(data).SupportedSourceTypes,
                       Head(data).SupportedAuthenticationTypes),
         db, Tail(data))

(***************************************************************************)
(* The remote responses the concurrent run is checked with.                *)
(***************************************************************************)
ScenarioResponse ==
  [sourceTypes |->
     << [Id |-> "1", Name |-> "openshift", Authentication |-> <<"token">>] >>,
   applicationTypes |->
     << [Id |-> "10", SupportedSourceTypes |-> <<"openshift">>,
         SupportedAuthenticationTypes |->
           [n \in {"openshift"} |-> MkSlice(<<"token">>)]] >>]

\* A source type without authentication types next to "openshift".
NoAuthResponse ==
  [sourceTypes |->
     << [Id |-> "1", Name |-> "openshift", Authentication |-> <<"token">>],
        [Id |-> "2", Name |-> "satellite", Authentication |-> <<>>] >>,
   applicationTypes |->
     << [Id |-> "10", SupportedSourceTypes |-> <<"openshift", "satellite">>,
         SupportedAuthenticationTypes |->
           [n \in {"openshift"} |-> MkSlice(<<"token">>)]] >>]

\* A backend that knows no source type at all.
EmptyResponse == [sourceTypes |-> <<>>, applicationTypes |-> <<>>]

Responses == {ScenarioResponse, NoAuthResponse, EmptyResponse}

(***************************************************************************)
(* package config (ParseConfig) and the tasks of a run.                    *)
(***************************************************************************)
TasksPerSource(c) ==
  1 + c.ApplicationsPerSource
    + c.ApplicationsPerSource * c.AuthenticationsPerResource
    + c.AuthenticationsPerResource + c.EndpointsPerSource
    + c.RhcConnectionsPerTenant

ParseConfig ==
  {c \in [Tenants : 0..MaxTenants,
          SourcesPerTenant : 0..MaxSources,
          ApplicationsPerSource : 0..MaxFanOut,
          EndpointsPerSource : 0..MaxFanOut,
          AuthenticationsPerResource : 0..MaxFanOut,
          RhcConnectionsPerTenant : 0..MaxFanOut,
          Capacity : 1..MaxConcurrent] :
     c.Tenants * c.SourcesPerTenant * TasksPerSource(c) <= MaxTasks}

\* A task is <<tenant, source, kind, i, k>>: the i-th task of its kind under
\* the source; for an application-level authentication, i is the application
\* and k the authentication.
SourceTask(tn, s) == <<tn, s, "source", 0, 0>>

ApplicationTask(src, i) == <<src[1], src[2], "application", i, 0>>

AuthSTask(src, k) == <<src[1], src[2], "authS", 0, k>>

AuthATask(app, k) == <<app[1], app[2], "authA", app[4], k>>

EndpointTask(src, i) == <<src[1], src[2], "endpoint", i, 0>>

RhcTask(src, i) == <<src[1], src[2], "rhcConnection", i, 0>>

Kind(t) == t[3]

SourceOf(t) == SourceTask(t[1], t[2])

ApplicationOf(t) == <<t[1], t[2], "application", t[4], 0>>

SourcesOfTenant(c, tn) == {SourceTask(tn, s) : s \in 1..c.SourcesPerTenant}

Sources(c) == UNION {SourcesOfTenant(c, tn) : tn \in 1..c.Tenants}

ApplicationsOf(c, src) ==
  {ApplicationTask(src, i) : i \in 1..c.ApplicationsPerSource}

AuthSOf(c, src) == {AuthSTask(src, k) : k \in 1..c.AuthenticationsPerResource}

AuthAOf(c, app) == {AuthATask(app, k) : k \in 1..c.AuthenticationsPerResource}

EndpointsOf(c, src) == {EndpointTask(src, i) : i \in 1..c.EndpointsPerSource}

RhcOf(c, src) == {RhcTask(src, i) : i \in 1..c.RhcConnectionsPerTenant}

Tasks(c) ==
  Sources(c)
  \cup UNION {ApplicationsOf(c, src) \cup AuthSOf(c, src)
              \cup EndpointsOf(c, src) \cup RhcOf(c, src) : src \in Sources(c)}
  \cup UNION {AuthAOf(c, ApplicationTask(src, i)) :
                src \in Sources(c), i \in 1..c.ApplicationsPerSource}

(***************************************************************************)
(* State.                                                                  *)
(***************************************************************************)
VARIABLES
  sourceNameId,       \* source_types_db: name -> id
  sourceTypes,        \* source_types_db: id -> SourceType
  sourceTypesKeys,    \* source_types_db: the keys list of GetRandomSourceType
  dbPc,               \* where the build of the database is
  srcLoaded,          \* the source types read from the response
  declared,           \* <<name, application type, kind>> read from the response
  contributed,        \* per (source type, application type): the lists given to it
  nRead,              \* number of elements read from each response
  ret,                \* the last query of the database and what it returned
  config,             \* package config
  ConcurrentRequests, \* number of elements held by the channel
  createdApplicationsTotal,
  createdAuthenticationsTotal,
  createdEndpointsTotal,
  createdRhcConnectionsTotal,
  createdSourcesTotal,
  mainPc,             \* where main is
  health,             \* how performHealthCheck ended
  tenant,             \* the index of main's loop over config.Tenants
  pc,                 \* where each goroutine is
  typeId,             \* st.Id of a source task, appType.Id of an application
                      \* task, authType of an authentication task
  resp,               \* what sendCreationRequest returned to the task
  calls,              \* number of passes of the task through the channel send
  incs,               \* number of atomic.AddUint64 the task performed
  faults,             \* number of failures injected so far
  report              \* the counters as main logged them

catVars == <<sourceNameId, sourceTypes, sourceTypesKeys>>

buildVars == <<dbPc, srcLoaded, declared, contributed, nRead, ret>>

counterVars ==
  <<createdApplicationsTotal, createdAuthenticationsTotal,
    createdEndpointsTotal, createdRhcConnectionsTotal, createdSourcesTotal>>

mainVars == <<mainPc, health, tenant, report>>

taskVars == <<pc, typeId, resp, calls, incs>>

vars ==
  <<catVars, buildVars, config, ConcurrentRequests, counterVars, mainVars,
    taskVars, faults>>

Db == [sourceNameId |-> sourceNameId, sourceTypes |-> sourceTypes]

\* The kinds stored for a pair (source type, application type).
StoredKinds(sourceTypeId, applicationTypeId) ==
  Range(MapGet(MapGet(sourceTypes, sourceTypeId, ZeroSourceType)
                 .CompatibleApplicationTypes,
               applicationTypeId, ZeroApplicationType)
          .CompatibleAuthentications.elems)

\* The list stored for a source type.
StoredSourceKinds(sourceTypeId) ==
  MapGet(sourceTypes, sourceTypeId, ZeroSourceType).CompatibleAuthentications.elems

NoReport == [read |-> FALSE]

NoQuery == [op |-> "none"]

Counters ==
  [sources |-> createdSourcesTotal,
   applications |-> createdApplicationsTotal,
   authentications |-> createdAuthenticationsTotal,
   endpoints |-> createdEndpointsTotal,
   rhcConnections |-> createdRhcConnectionsTotal]

Terminal(t) == pc[t] \in {"succeeded", "failed"}

\* The process is alive: main has not returned, no Fatalw, no panic.
Running == mainPc \in {"loop", "wait", "reported"}

InitRun ==
  /\ sourceNameId = EmptyMap
  /\ sourceTypes = EmptyMap
  /\ sourceTypesKeys = NilSlice
  /\ dbPc = "getSourceTypes"
  /\ srcLoaded = {}
  /\ declared = {}
  /\ contributed = EmptyMap
  /\ nRead = [sourceTypes |-> 0, applicationTypes |-> 0]
  /\ ret = NoQuery
  /\ ConcurrentRequests = 0
  /\ createdApplicationsTotal = 0
  /\ createdAuthenticationsTotal = 0
  /\ createdEndpointsTotal = 0
  /\ createdRhcConnectionsTotal = 0
  /\ createdSourcesTotal = 0
  /\ tenant = 1
  /\ faults = 0
  /\ report = NoReport

Init ==
  /\ InitRun
  /\ config \in ParseConfig
  /\ mainPc = "healthcheck"
  /\ health = "pending"
  /\ pc = [t \in Tasks(config) |-> "unspawned"]
  /\ typeId = [t \in Tasks(config) |-> ""]
  /\ resp = [t \in Tasks(config) |-> "none"]
  /\ calls = [t \in Tasks(config) |-> 0]
  /\ incs = [t \in Tasks(config) |-> 0]

(***************************************************************************)
(* main                                                                    *)
(***************************************************************************)
HealthOutcomes ==
  {"requestError", "transportError", "closeError", "statusNotOk", "ok"}

\* performHealthCheck without the test of res.StatusCode.
performHealthCheck_IgnoresStatus ==
  /\ mainPc = "healthcheck"
  /\ \E outcome \in HealthOutcomes :
       /\ health' = outcome
       /\ mainPc' = IF outcome \in {"ok", "statusNotOk"} THEN "initdb" ELSE "fatal"
  /\ UNCHANGED <<catVars, buildVars, config, ConcurrentRequests, counterVars,
                 tenant, report, taskVars, faults>>

\* Each of the four errors ends in logger.Logger.Fatalw, which exits.
performHealthCheck ==
  /\ mainPc = "healthcheck"
  /\ \E outcome \in HealthOutcomes :
       /\ health' = outcome
       /\ mainPc' = IF outcome = "ok" THEN "initdb" ELSE "fatal"
  /\ UNCHANGED <<catVars, buildVars, config, ConcurrentRequests, counterVars,
                 tenant, report, taskVars, faults>>

mainInitializeDatabase ==
  /\ mainPc = "initdb"
  /\ \/ /\ \E response \in Responses :
             /\ sourceNameId' = InitializeDatabase(Db, response).sourceNameId
             /\ sourceTypes' = InitializeDatabase(Db, response).sourceTypes
             /\ nRead' = [sourceTypes |-> Len(response.sourceTypes),
                          applicationTypes |-> Len(response.applicationTypes)]
             /\ srcLoaded' = ReadSourceTypes(srcLoaded, response.sourceTypes)
             /\ declared' = ReadDeclared(declared, response.applicationTypes)
             /\ contributed' =
                  ReadContributed(contributed,
                                  getSourceTypes(Db, response.sourceTypes),
                                  response.applicationTypes)
        /\ dbPc' = "ready"
        /\ mainPc' = "loop"
     \/ /\ mainPc' = "fatal"
        /\ UNCHANGED <<sourceNameId, sourceTypes, srcLoaded, declared,
                       contributed, nRead, dbPc>>
  /\ UNCHANGED <<sourceTypesKeys, ret, config, ConcurrentRequests, counterVars,
                 health, tenant, report, taskVars, faults>>

\* for i < config.SourcesPerTenant: wg.Add(1); go func() {...}
mainSpawnSources ==
  /\ mainPc = "loop"
  /\ tenant <= config.Tenants
  /\ pc' = [t \in DOMAIN pc |->
              IF t \in SourcesOfTenant(config, tenant) THEN "created" ELSE pc[t]]
  /\ mainPc' = "wait"
  /\ UNCHANGED <<catVars, buildVars, config, ConcurrentRequests, counterVars,
                 health, tenant, report, typeId, resp, calls, incs, faults>>

\* main without wg.Wait(): the next tenant when the goroutines are started.
mainWait_NoWait ==
  /\ mainPc = "wait"
  /\ tenant' = tenant + 1
  /\ mainPc' = "loop"
  /\ UNCHANGED <<catVars, buildVars, config, ConcurrentRequests, counterVars,
                 health, report, taskVars, faults>>

\* wg.Wait() of main: every source goroutine of the tenant ran wg.Done.
mainWait ==
  /\ mainPc = "wait"
  /\ \A t \in SourcesOfTenant(config, tenant) : Terminal(t)
  /\ tenant' = tenant + 1
  /\ mainPc' = "loop"
  /\ UNCHANGED <<catVars, buildVars, config, ConcurrentRequests, counterVars,
                 health, report, taskVars, faults>>

\* The "Statistics - created resources" log entry reads the five counters.
mainReport ==
  /\ mainPc = "loop"
  /\ tenant > config.Tenants
  /\ report' = [read |-> TRUE, counters |-> Counters]
  /\ mainPc' = "reported"
  /\ UNCHANGED <<catVars, buildVars, config, ConcurrentRequests, counterVars,
                 health, tenant, taskVars, faults>>

\* logger.FlushLoggingBuffer() and the return of main: the process is gone,
\* with every goroutine that was still running.
mainExit ==
  /\ mainPc = "reported"
  /\ mainPc' = "exited"
  /\ UNCHANGED <<catVars, buildVars, config, ConcurrentRequests, counterVars,
                 health, tenant, report, taskVars, faults>>


(***************************************************************************)
(* The goroutines.  A goroutine is "created" when the go statement ran,    *)
(* "awaiting" when it is at the send on config.ConcurrentRequests,         *)
(* "inflight" between that send and the receive that frees the slot,       *)
(* "returned" when sendCreationRequest returned, and then "succeeded" or   *)
(* "failed".  A source goroutine that created its source goes through      *)
(* "apps", "authS", "endpoints" and "rhc", the wg.Wait() of the four       *)
(* create* calls of main's closure, before it is "succeeded".              *)
(***************************************************************************)
Outcomes ==
  {"requestError", "transportError", "statusNotCreated", "malformedBody",
   "bodyWithoutId", "created"}

\* What sendCreationRequest hands back: "false" is (nil, false); the other
\* values are (resBody, true) with the body it read.
sendCreationRequest(outcome) ==
  CASE outcome \in {"requestError", "transportError", "statusNotCreated"} -> "false"
    [] outcome = "malformedBody" -> "malformed"
    [] outcome = "bodyWithoutId" -> "noid"
    [] OTHER -> "id"

\* isSuccess of the caller and err == nil of its json.Unmarshal into IdStruct.
Created(r) == r \in {"id", "noid"}

Spawn(ts) == [t \in DOMAIN pc |-> IF t \in ts THEN "created" ELSE pc[t]]

\* if sourceTypesKeys == nil
GetRandomSourceTypeCheck(t) ==
  /\ Running
  /\ Kind(t) = "source"
  /\ pc[t] = "created"
  /\ pc' = [pc EXCEPT ![t] = IF sourceTypesKeys.nil THEN "keysInit" ELSE "keysReady"]
  /\ UNCHANGED <<catVars, buildVars, config, ConcurrentRequests, counterVars,
                 mainVars, typeId, resp, calls, incs, faults>>

\* for key := range sourceTypes { sourceTypesKeys = append(sourceTypesKeys, key) }
\* run by every goroutine that saw nil, without synchronisation: the appends
\* land after the list another goroutine built, or replace it.
GetRandomSourceTypeInit(t) ==
  /\ Running
  /\ Kind(t) = "source"
  /\ pc[t] = "keysInit"
  /\ \E base \in {sourceTypesKeys, NilSlice} :
       sourceTypesKeys' = GoAppend(base, MkSlice(SetToSeq(DOMAIN sourceTypes)))
  /\ pc' = [pc EXCEPT ![t] = "keysReady"]
  /\ UNCHANGED <<sourceNameId, sourceTypes, buildVars, config,
                 ConcurrentRequests, counterVars, mainVars, typeId, resp,
                 calls, incs, faults>>

\* A task that sends on config.ConcurrentRequests before it builds its
\* payload, and returns on the error without the receive.
StartTask_FailsHoldingUnit(t, picks, store) ==
  /\ Running
  /\ \/ /\ Panic \in picks
        /\ mainPc' = "panicked"
        /\ UNCHANGED <<pc, typeId, faults, ConcurrentRequests>>
     \/ /\ \E v \in picks \ {Panic} :
             /\ pc' = [pc EXCEPT ![t] = "awaiting"]
             /\ typeId' = IF store THEN [typeId EXCEPT ![t] = v] ELSE typeId
        /\ UNCHANGED <<mainPc, faults, ConcurrentRequests>>
     \/ /\ Panic \notin picks
        /\ faults < MaxFaults
        /\ ConcurrentRequests < config.Capacity
        /\ ConcurrentRequests' = ConcurrentRequests + 1
        /\ pc' = [pc EXCEPT ![t] = "failed"]
        /\ faults' = faults + 1
        /\ UNCHANGED <<mainPc, typeId>>
  /\ UNCHANGED <<catVars, buildVars, config, counterVars,
                 health, tenant, report, resp, calls, incs>>

\* The part of a task before sendCreationRequest: the random pick in the
\* database (a panic ends the process), then the UUID and the JSON encoding
\* (an error ends the task).
StartTask(t, picks, store) ==
  /\ Running
  /\ \/ /\ Panic \in picks
        /\ mainPc' = "panicked"
        /\ UNCHANGED <<pc, typeId, faults>>
     \/ /\ \E v \in picks \ {Panic} :
             /\ pc' = [pc EXCEPT ![t] = "awaiting"]
             /\ typeId' = IF store THEN [typeId EXCEPT ![t] = v] ELSE typeId
        /\ UNCHANGED <<mainPc, faults>>
     \/ /\ Panic \notin picks
        /\ faults < MaxFaults
        /\ pc' = [pc EXCEPT ![t] = "failed"]
        /\ faults' = faults + 1
        /\ UNCHANGED <<mainPc, typeId>>
  /\ UNCHANGED <<catVars, buildVars, config, ConcurrentRequests, counterVars,
                 health, tenant, report, resp, calls, incs>>

createSourceStart(t) ==
  /\ Kind(t) = "source"
  /\ pc[t] = "keysReady"
  /\ StartTask(t, GetRandomSourceTypeFrom(Db, sourceTypesKeys), TRUE)

createApplicationsStart(t) ==
  /\ Kind(t) = "application"
  /\ pc[t] = "created"
  /\ StartTask(t, GetRandomApplicationType(Db, typeId[SourceOf(t)]), TRUE)

createAuthenticationsSourceStart(t) ==
  /\ Kind(t) = "authS"
  /\ pc[t] = "created"
  /\ StartTask(t, GetRandomAuthenticationTypeForSource(Db, typeId[SourceOf(t)]),
               TRUE)

\* The kind picked for the application type under any source type.
createAuthenticationsApplicationStart_AnySourceType(t) ==
  /\ Kind(t) = "authA"
  /\ pc[t] = "created"
  /\ StartTask(t,
               UNION {GetRandomAuthenticationTypeForApplication(
                        Db, id, typeId[ApplicationOf(t)]) :
                      id \in DOMAIN sourceTypes},
               TRUE)

createAuthenticationsApplicationStart(t) ==
  /\ Kind(t) = "authA"
  /\ pc[t] = "created"
  /\ StartTask(t,
               GetRandomAuthenticationTypeForApplication(
                 Db, typeId[SourceOf(t)], typeId[ApplicationOf(t)]),
               TRUE)

createEndpointsStart(t) ==
  /\ Kind(t) = "endpoint"
  /\ pc[t] = "created"
  /\ StartTask(t, {"uuid"}, FALSE)

createRhcConnectionsStart(t) ==
  /\ Kind(t) = "rhcConnection"
  /\ pc[t] = "created"
  /\ StartTask(t, {"uuid"}, FALSE)

\* Acquire with a send that never blocks.
Acquire_NeverBlocks(t) ==
  /\ Running
  /\ pc[t] = "awaiting"
  /\ ConcurrentRequests' = ConcurrentRequests + 1
  /\ pc' = [pc EXCEPT ![t] = "inflight"]
  /\ calls' = [calls EXCEPT ![t] = @ + 1]
  /\ UNCHANGED <<catVars, buildVars, config, counterVars, mainVars, typeId,
                 resp, incs, faults>>

\* config.ConcurrentRequests <- struct{}{} : blocks while the channel is full.
Acquire(t) ==
  /\ Running
  /\ pc[t] = "awaiting"
  /\ ConcurrentRequests < config.Capacity
  /\ ConcurrentRequests' = ConcurrentRequests + 1
  /\ pc' = [pc EXCEPT ![t] = "inflight"]
  /\ calls' = [calls EXCEPT ![t] = @ + 1]
  /\ UNCHANGED <<catVars, buildVars, config, counterVars, mainVars, typeId,
                 resp, incs, faults>>

\* Release without the receive on the path of a request that could not be
\* built.
Release_KeepsSlotOnRequestError(t) ==
  /\ Running
  /\ pc[t] = "inflight"
  /\ \E outcome \in Outcomes :
       /\ outcome # "created" => faults < MaxFaults
       /\ faults' = IF outcome = "created" THEN faults ELSE faults + 1
       /\ resp' = [resp EXCEPT ![t] = sendCreationRequest(outcome)]
       /\ ConcurrentRequests' =
            IF outcome = "requestError"
            THEN ConcurrentRequests ELSE ConcurrentRequests - 1
  /\ pc' = [pc EXCEPT ![t] = "returned"]
  /\ UNCHANGED <<catVars, buildVars, config, counterVars, mainVars, typeId,
                 calls, incs>>

\* The slot freed by the caller once it has the result of the request,
\* instead of by sendCreationRequest when the request is done.
Release_AfterResult(t) ==
  /\ Running
  /\ pc[t] = "inflight"
  /\ IF resp[t] = "none"
     THEN /\ \E outcome \in Outcomes :
               /\ outcome # "created" => faults < MaxFaults
               /\ faults' = IF outcome = "created" THEN faults ELSE faults + 1
               /\ resp' = [resp EXCEPT ![t] = sendCreationRequest(outcome)]
          /\ UNCHANGED <<ConcurrentRequests, pc>>
     ELSE /\ ConcurrentRequests' = ConcurrentRequests - 1
          /\ pc' = [pc EXCEPT ![t] = "returned"]
          /\ UNCHANGED <<resp, faults>>
  /\ UNCHANGED <<catVars, buildVars, config, counterVars, mainVars, typeId,
                 calls, incs>>

\* The request is built and sent; on each of the three paths the slot is
\* freed by one <-config.ConcurrentRequests before the function returns.
Release(t) ==
  /\ Running
  /\ pc[t] = "inflight"
  /\ \E outcome \in Outcomes :
       /\ outcome # "created" => faults < MaxFaults
       /\ faults' = IF outcome = "created" THEN faults ELSE faults + 1
       /\ resp' = [resp EXCEPT ![t] = sendCreationRequest(outcome)]
  /\ ConcurrentRequests' = ConcurrentRequests - 1
  /\ pc' = [pc EXCEPT ![t] = "returned"]
  /\ UNCHANGED <<catVars, buildVars, config, counterVars, mainVars, typeId,
                 calls, incs>>

\* The closure of main without "if !ok { return }".
createSourceFinish_IgnoresOk(t) ==
  /\ Running
  /\ Kind(t) = "source"
  /\ pc[t] = "returned"
  /\ pc' = [Spawn(ApplicationsOf(config, t)) EXCEPT ![t] = "apps"]
  /\ UNCHANGED <<catVars, buildVars, config, ConcurrentRequests, counterVars,
                 mainVars, typeId, resp, calls, incs, faults>>

\* The closure of main returning on "!ok" without wg.Done().
createSourceFinish_NoDoneOnFailure(t) ==
  /\ Running
  /\ Kind(t) = "source"
  /\ pc[t] = "returned"
  /\ IF Created(resp[t])
     THEN pc' = [Spawn(ApplicationsOf(config, t)) EXCEPT ![t] = "apps"]
     ELSE pc' = [pc EXCEPT ![t] = "abandoned"]
  /\ UNCHANGED <<catVars, buildVars, config, ConcurrentRequests, counterVars,
                 mainVars, typeId, resp, calls, incs, faults>>

\* createSource after sendCreationRequest, then "if !ok { return }" of the
\* closure of main, else createApplications starts its goroutines.
createSourceFinish(t) ==
  /\ Running
  /\ Kind(t) = "source"
  /\ pc[t] = "returned"
  /\ IF Created(resp[t])
     THEN pc' = [Spawn(ApplicationsOf(config, t)) EXCEPT ![t] = "apps"]
     ELSE pc' = [pc EXCEPT ![t] = "failed"]
  /\ UNCHANGED <<catVars, buildVars, config, ConcurrentRequests, counterVars,
                 mainVars, typeId, resp, calls, incs, faults>>

\* createApplicationsWait giving up the source when an application failed.
createApplicationsWait_FailFast(t) ==
  /\ Running
  /\ Kind(t) = "source"
  /\ pc[t] = "apps"
  /\ \A a \in ApplicationsOf(config, t) : Terminal(a)
  /\ IF \E a \in ApplicationsOf(config, t) : pc[a] = "failed"
     THEN pc' = [pc EXCEPT ![t] = "failed"]
     ELSE pc' = [Spawn(AuthSOf(config, t)) EXCEPT ![t] = "authS"]
  /\ UNCHANGED <<catVars, buildVars, config, ConcurrentRequests, counterVars,
                 mainVars, typeId, resp, calls, incs, faults>>

\* createApplications without its wg.Wait().
createApplicationsWait_NoWait(t) ==
  /\ Running
  /\ Kind(t) = "source"
  /\ pc[t] = "apps"
  /\ pc' = [Spawn(AuthSOf(config, t)) EXCEPT ![t] = "authS"]
  /\ UNCHANGED <<catVars, buildVars, config, ConcurrentRequests, counterVars,
                 mainVars, typeId, resp, calls, incs, faults>>

\* wg.Wait() of createApplications, then createAuthenticationsSource starts
\* its goroutines.
createApplicationsWait(t) ==
  /\ Running
  /\ Kind(t) = "source"
  /\ pc[t] = "apps"
  /\ \A a \in ApplicationsOf(config, t) : Terminal(a)
  /\ pc' = [Spawn(AuthSOf(config, t)) EXCEPT ![t] = "authS"]
  /\ UNCHANGED <<catVars, buildVars, config, ConcurrentRequests, counterVars,
                 mainVars, typeId, resp, calls, incs, faults>>

\* The closure of main without its call of createEndpoints.
createAuthenticationsSourceWait_NoEndpoints(t) ==
  /\ Running
  /\ Kind(t) = "source"
  /\ pc[t] = "authS"
  /\ \A a \in AuthSOf(config, t) : Terminal(a)
  /\ pc' = [Spawn(RhcOf(config, t)) EXCEPT ![t] = "rhc"]
  /\ UNCHANGED <<catVars, buildVars, config, ConcurrentRequests, counterVars,
                 mainVars, typeId, resp, calls, incs, faults>>

\* wg.Wait() of createAuthenticationsSource, then createEndpoints starts its
\* goroutines.
createAuthenticationsSourceWait(t) ==
  /\ Running
  /\ Kind(t) = "source"
  /\ pc[t] = "authS"
  /\ \A a \in AuthSOf(config, t) : Terminal(a)
  /\ pc' = [Spawn(EndpointsOf(config, t)) EXCEPT ![t] = "endpoints"]
  /\ UNCHANGED <<catVars, buildVars, config, ConcurrentRequests, counterVars,
                 mainVars, typeId, resp, calls, incs, faults>>

\* wg.Wait() of createEndpoints, then createRhcConnections starts its
\* goroutines.
createEndpointsWait(t) ==
  /\ Running
  /\ Kind(t) = "source"
  /\ pc[t] = "endpoints"
  /\ \A e \in EndpointsOf(config, t) : Terminal(e)
  /\ pc' = [Spawn(RhcOf(config, t)) EXCEPT ![t] = "rhc"]
  /\ UNCHANGED <<catVars, buildVars, config, ConcurrentRequests, counterVars,
                 mainVars, typeId, resp, calls, incs, faults>>

\* wg.Wait() of createRhcConnections, then atomic.AddUint64(&createdSourcesTotal, 1)
\* and the deferred wg.Done() of the closure.
createRhcConnectionsWait(t) ==
  /\ Running
  /\ Kind(t) = "source"
  /\ pc[t] = "rhc"
  /\ \A r \in RhcOf(config, t) : Terminal(r)
  /\ createdSourcesTotal' = createdSourcesTotal + 1
  /\ incs' = [incs EXCEPT ![t] = @ + 1]
  /\ pc' = [pc EXCEPT ![t] = "succeeded"]
  /\ UNCHANGED <<catVars, buildVars, config, ConcurrentRequests,
                 createdApplicationsTotal, createdAuthenticationsTotal,
                 createdEndpointsTotal, createdRhcConnectionsTotal, mainVars,
                 typeId, resp, calls, faults>>

\* The goroutine of createApplications after sendCreationRequest: the counter,
\* then "go createAuthenticationsApplication(...)", which nothing waits for.
createApplicationsFinish(t) ==
  /\ Running
  /\ Kind(t) = "application"
  /\ pc[t] = "returned"
  /\ IF Created(resp[t])
     THEN /\ createdApplicationsTotal' = createdApplicationsTotal + 1
          /\ incs' = [incs EXCEPT ![t] = @ + 1]
          /\ pc' = [Spawn(AuthAOf(config, t)) EXCEPT ![t] = "succeeded"]
     ELSE /\ pc' = [pc EXCEPT ![t] = "failed"]
          /\ UNCHANGED <<createdApplicationsTotal, incs>>
  /\ UNCHANGED <<catVars, buildVars, config, ConcurrentRequests,
                 createdAuthenticationsTotal, createdEndpointsTotal,
                 createdRhcConnectionsTotal, createdSourcesTotal, mainVars,
                 typeId, resp, calls, faults>>

\* The counter written with the sum of 1 and a value read earlier, as an
\* increment that is not atomic does.
createAuthenticationsFinish_NotAtomic(t) ==
  /\ Running
  /\ Kind(t) \in {"authS", "authA"}
  /\ pc[t] = "returned"
  /\ IF Created(resp[t])
     THEN /\ createdAuthenticationsTotal' \in
               {v + 1 : v \in 0..createdAuthenticationsTotal}
          /\ incs' = [incs EXCEPT ![t] = @ + 1]
          /\ pc' = [pc EXCEPT ![t] = "succeeded"]
     ELSE /\ pc' = [pc EXCEPT ![t] = "failed"]
          /\ UNCHANGED <<createdAuthenticationsTotal, incs>>
  /\ UNCHANGED <<catVars, buildVars, config, ConcurrentRequests,
                 createdApplicationsTotal, createdEndpointsTotal,
                 createdRhcConnectionsTotal, createdSourcesTotal, mainVars,
                 typeId, resp, calls, faults>>

\* createAuthentications after sendCreationRequest and the counter of the
\* goroutine that called it.
createAuthenticationsFinish(t) ==
  /\ Running
  /\ Kind(t) \in {"authS", "authA"}
  /\ pc[t] = "returned"
  /\ IF Created(resp[t])
     THEN /\ createdAuthenticationsTotal' = createdAuthenticationsTotal + 1
          /\ incs' = [incs EXCEPT ![t] = @ + 1]
          /\ pc' = [pc EXCEPT ![t] = "succeeded"]
     ELSE /\ pc' = [pc EXCEPT ![t] = "failed"]
          /\ UNCHANGED <<createdAuthenticationsTotal, incs>>
  /\ UNCHANGED <<catVars, buildVars, config, ConcurrentRequests,
                 createdApplicationsTotal, createdEndpointsTotal,
                 createdRhcConnectionsTotal, createdSourcesTotal, mainVars,
                 typeId, resp, calls, faults>>

\* createEndpointsFinish adding the endpoint to its counter twice.
createEndpointsFinish_CountsTwice(t) ==
  /\ Running
  /\ Kind(t) = "endpoint"
  /\ pc[t] = "returned"
  /\ IF Created(resp[t])
     THEN /\ createdEndpointsTotal' = createdEndpointsTotal + 2
          /\ incs' = [incs EXCEPT ![t] = @ + 1]
          /\ pc' = [pc EXCEPT ![t] = "succeeded"]
     ELSE /\ pc' = [pc EXCEPT ![t] = "failed"]
          /\ UNCHANGED <<createdEndpointsTotal, incs>>
  /\ UNCHANGED <<catVars, buildVars, config, ConcurrentRequests,
                 createdApplicationsTotal, createdAuthenticationsTotal,
                 createdRhcConnectionsTotal, createdSourcesTotal, mainVars,
                 typeId, resp, calls, faults>>

\* createEndpointsFinish sending the request again after a failure.
createEndpointsFinish_Retry(t) ==
  /\ Running
  /\ Kind(t) = "endpoint"
  /\ pc[t] = "returned"
  /\ IF Created(resp[t])
     THEN /\ createdEndpointsTotal' = createdEndpointsTotal + 1
          /\ incs' = [incs EXCEPT ![t] = @ + 1]
          /\ pc' = [pc EXCEPT ![t] = "succeeded"]
     ELSE /\ pc' = [pc EXCEPT ![t] = "awaiting"]
          /\ UNCHANGED <<createdEndpointsTotal, incs>>
  /\ UNCHANGED <<catVars, buildVars, config, ConcurrentRequests,
                 createdApplicationsTotal, createdAuthenticationsTotal,
                 createdRhcConnectionsTotal, createdSourcesTotal, mainVars,
                 typeId, resp, calls, faults>>

createEndpointsFinish(t) ==
  /\ Running
  /\ Kind(t) = "endpoint"
  /\ pc[t] = "returned"
  /\ IF Created(resp[t])
     THEN /\ createdEndpointsTotal' = createdEndpointsTotal + 1
          /\ incs' = [incs EXCEPT ![t] = @ + 1]
          /\ pc' = [pc EXCEPT ![t] = "succeeded"]
     ELSE /\ pc' = [pc EXCEPT ![t] = "failed"]
          /\ UNCHANGED <<createdEndpointsTotal, incs>>
  /\ UNCHANGED <<catVars, buildVars, config, ConcurrentRequests,
                 createdApplicationsTotal, createdAuthenticationsTotal,
                 createdRhcConnectionsTotal, createdSourcesTotal, mainVars,
                 typeId, resp, calls, faults>>

\* createRhcConnections sending the request again after a failure.
createRhcConnectionsFinish_Retry(t) ==
  /\ Running
  /\ Kind(t) = "rhcConnection"
  /\ pc[t] = "returned"
  /\ IF Created(resp[t])
     THEN /\ createdRhcConnectionsTotal' = createdRhcConnectionsTotal + 1
          /\ incs' = [incs EXCEPT ![t] = @ + 1]
          /\ pc' = [pc EXCEPT ![t] = "succeeded"]
     ELSE /\ pc' = [pc EXCEPT ![t] = "awaiting"]
          /\ UNCHANGED <<createdRhcConnectionsTotal, incs>>
  /\ UNCHANGED <<catVars, buildVars, config, ConcurrentRequests,
                 createdApplicationsTotal, createdAuthenticationsTotal,
                 createdEndpointsTotal, createdSourcesTotal, mainVars,
                 typeId, resp, calls, faults>>

createRhcConnectionsFinish(t) ==
  /\ Running
  /\ Kind(t) = "rhcConnection"
  /\ pc[t] = "returned"
  /\ IF Created(resp[t])
     THEN /\ createdRhcConnectionsTotal' = createdRhcConnectionsTotal + 1
          /\ incs' = [incs EXCEPT ![t] = @ + 1]
          /\ pc' = [pc EXCEPT ![t] = "succeeded"]
     ELSE /\ pc' = [pc EXCEPT ![t] = "failed"]
          /\ UNCHANGED <<createdRhcConnectionsTotal, incs>>
  /\ UNCHANGED <<catVars, buildVars, config, ConcurrentRequests,
                 createdApplicationsTotal, createdAuthenticationsTotal,
                 createdEndpointsTotal, createdSourcesTotal, mainVars,
                 typeId, resp, calls, faults>>

Next ==
  \/ performHealthCheck
  \/ mainInitializeDatabase
  \/ mainSpawnSources
  \/ mainWait
  \/ mainReport
  \/ mainExit
  \/ \E t \in DOMAIN pc : GetRandomSourceTypeCheck(t)
  \/ \E t \in DOMAIN pc : GetRandomSourceTypeInit(t)
  \/ \E t \in DOMAIN pc : createSourceStart(t)
  \/ \E t \in DOMAIN pc : createApplicationsStart(t)
  \/ \E t \in DOMAIN pc : createAuthenticationsSourceStart(t)
  \/ \E t \in DOMAIN pc : createAuthenticationsApplicationStart(t)
  \/ \E t \in DOMAIN pc : createEndpointsStart(t)
  \/ \E t \in DOMAIN pc : createRhcConnectionsStart(t)
  \/ \E t \in DOMAIN pc : Acquire(t)
  \/ \E t \in DOMAIN pc : Release(t)
  \/ \E t \in DOMAIN pc : createSourceFinish(t)
  \/ \E t \in DOMAIN pc : createApplicationsWait(t)
  \/ \E t \in DOMAIN pc : createAuthenticationsSourceWait(t)
  \/ \E t \in DOMAIN pc : createEndpointsWait(t)
  \/ \E t \in DOMAIN pc : createRhcConnectionsWait(t)
  \/ \E t \in DOMAIN pc : createApplicationsFinish(t)
  \/ \E t \in DOMAIN pc : createAuthenticationsFinish(t)
  \/ \E t \in DOMAIN pc : createEndpointsFinish(t)
  \/ \E t \in DOMAIN pc : createRhcConnectionsFinish(t)

Spec == Init /\ [][Next]_vars


(***************************************************************************)
(* Properties of the concurrent run (specification Spec).                  *)
(***************************************************************************)
InFlight == {t \in DOMAIN pc : pc[t] = "inflight"}

Spawned == {t \in DOMAIN pc : pc[t] # "unspawned"}

LeavesOf(s) == {t \in DOMAIN pc : Kind(t) # "source" /\ SourceOf(t) = s}

\* C1: the number of tasks between the send on config.ConcurrentRequests and
\* the receive that frees their slot never exceeds the capacity of the
\* channel.
C1_InFlightWithinCapacity == Cardinality(InFlight) <= config.Capacity

\* The channel is full and another task is blocked at the send.
C1_Witness ==
  /\ Cardinality(InFlight) = config.Capacity
  /\ \E t \in DOMAIN pc : pc[t] = "awaiting"

\* C2: when main has read the five counters for the statistics entry, every
\* task that was started has terminated and no counter changes any more.
C2_ReportReadAfterAllTasks ==
  report.read =>
    /\ \A t \in Spawned : Terminal(t)
    /\ Counters = report.counters

\* C3: every send on the channel is matched by exactly one receive on every
\* path out of sendCreationRequest: the channel holds one element per task
\* that is inside, and none once every started task has terminated.
C3_SlotFreedOnEveryPath ==
  /\ ConcurrentRequests = Cardinality(InFlight)
  /\ (\A t \in Spawned : Terminal(t)) => ConcurrentRequests = 0

\* Every started task has terminated, and one of them left
\* sendCreationRequest by an error path.
C3_Witness ==
  /\ \E t \in Spawned : calls[t] = 1 /\ resp[t] = "false"
  /\ \A t \in Spawned : Terminal(t)
  /\ ConcurrentRequests = 0

\* C4: a task goes through sendCreationRequest at most once, and a task that
\* failed has incremented no counter.
C4_AtMostOneCallNoRetry ==
  \A t \in DOMAIN pc :
    /\ calls[t] <= 1
    /\ pc[t] = "failed" => incs[t] = 0

\* An endpoint task whose call failed has terminated after that one call.
C4_Witness ==
  \E t \in DOMAIN pc :
    /\ Kind(t) = "endpoint"
    /\ pc[t] = "failed"
    /\ calls[t] = 1
    /\ ~Created(resp[t])
    /\ createdEndpointsTotal = 0

\* C5: a task fails only by its own failure before the call or by the outcome
\* of its own call, never by the failure of another task; a task whose own
\* call created the resource is never failed, and a source that is done with
\* its four groups is counted.
C5_NoCrossTaskFailure ==
  \A t \in DOMAIN pc :
    /\ pc[t] = "failed" => (calls[t] = 0 \/ ~Created(resp[t]))
    /\ pc[t] = "succeeded" => (Created(resp[t]) /\ incs[t] = 1)

\* A leaf failed, a sibling of it succeeded and their source is counted.
C5_Witness ==
  \E s \in DOMAIN pc :
    /\ Kind(s) = "source"
    /\ pc[s] = "succeeded"
    /\ createdSourcesTotal >= 1
    /\ \E a, b \in LeavesOf(s) :
         /\ pc[a] = "failed" /\ calls[a] = 1
         /\ pc[b] = "succeeded"

IsScenario ==
  /\ config.Tenants = 1
  /\ config.SourcesPerTenant = 1
  /\ config.ApplicationsPerSource = 1
  /\ config.AuthenticationsPerResource = 1
  /\ config.EndpointsPerSource = 0
  /\ config.RhcConnectionsPerTenant = 0
  /\ Db = InitializeDatabase(EmptyDb, ScenarioResponse)

\* C6: in the scenario (one "openshift" source type, one "catalog"
\* application type, 1 tenant, 1 source, 1 application, 1 authentication per
\* resource, a backend that creates everything) the counters of the
\* statistics entry are sources 1, applications 1, authentications 2,
\* endpoints 0, rhcConnections 0.
C6_ScenarioCounters ==
  (IsScenario /\ faults = 0 /\ report.read) =>
    report.counters =
      [sources |-> 1, applications |-> 1, authentications |-> 2,
       endpoints |-> 0, rhcConnections |-> 0]

\* The counters of the run in which every goroutine has finished before main
\* reads them and every call created its resource.
FullCounters(c) ==
  LET n == c.Tenants * c.SourcesPerTenant
  IN [sources |-> n,
      applications |-> n * c.ApplicationsPerSource,
      authentications |->
        n * c.AuthenticationsPerResource * (1 + c.ApplicationsPerSource),
      endpoints |-> n * c.EndpointsPerSource,
      rhcConnections |-> n * c.RhcConnectionsPerTenant]

\* C7: with a backend that creates everything, the counters of the
\* statistics entry depend on the configuration only, not on the
\* interleaving: they are those of the run in which main reads them last.
C7_CountersIndependentOfInterleaving ==
  (faults = 0 /\ report.read) => report.counters = FullCounters(config)

\* C8: once InitializeDatabase has returned and a source goroutine has been
\* started, no step writes sourceTypes, sourceNameId or sourceTypesKeys.
C8_CatalogReadOnlyAfterBuild ==
  [][(dbPc = "ready" /\ Spawned # {}) =>
       UNCHANGED <<sourceNameId, sourceTypes, sourceTypesKeys>>]_vars

\* No catalog fetch and no creation call was issued, no goroutine started.
NothingIssued ==
  /\ dbPc = "getSourceTypes"
  /\ nRead = [sourceTypes |-> 0, applicationTypes |-> 0]
  /\ sourceTypes = EmptyMap
  /\ Spawned = {}
  /\ \A t \in DOMAIN calls : calls[t] = 0

\* C15: the health check comes first; when it fails the run is over and no
\* catalog fetch and no creation call is issued; whatever is fetched or
\* created comes after a health check that succeeded.
C15_HealthCheckFirst ==
  /\ health = "pending" => (mainPc = "healthcheck" /\ NothingIssued)
  /\ health \notin {"pending", "ok"} => (mainPc = "fatal" /\ NothingIssued)
  /\ mainPc = "healthcheck" => health = "pending"
  /\ ~NothingIssued => health = "ok"

\* The backend answered the health check with a status other than 200 in a
\* run configured to create resources.
C15_Witness ==
  /\ health = "statusNotOk"
  /\ mainPc = "fatal"
  /\ DOMAIN pc # {}

\* The id the backend gives to the resource the task creates.
BackendId(t) ==
  Kind(t) \o "-" \o ToString(t[1]) \o "-" \o ToString(t[2]) \o "-" \o ToString(t[4])

\* sourceId.Id and applicationId.Id after json.Unmarshal of the response.
ReturnedId(t) == IF resp[t] = "id" THEN BackendId(t) ELSE ""

\* ResourceIDRaw of the AuthenticationCreateRequest of an authentication
\* task: the third argument of createAuthenticationsSource in the closure of
\* main, the fourth of createAuthenticationsApplication in createApplications.
ResourceIDRaw(t) ==
  IF Kind(t) = "authS"
  THEN typeId[SourceOf(t)]
  ELSE ReturnedId(ApplicationOf(t))

AuthenticationCalls ==
  {t \in DOMAIN pc : Kind(t) \in {"authS", "authA"} /\ calls[t] > 0}

\* C16: the kind of every authentication creation call is an element of the
\* list of the source type of its source, or of the list of the pair (type of
\* the parent source, type of the application), or the sentinel when that
\* list is empty.
C16_AuthenticationKindCompatible ==
  \A t \in AuthenticationCalls :
    IF Kind(t) = "authS"
    THEN typeId[t] \in Range(StoredSourceKinds(typeId[SourceOf(t)]))
    ELSE LET kinds == StoredKinds(typeId[SourceOf(t)], typeId[ApplicationOf(t)])
         IN IF kinds = {}
            THEN typeId[t] = NoAuthenticationSentinel
            ELSE typeId[t] \in kinds

\* A call for a source and a call for an application of that source were
\* issued, each with a kind of its list.
C16_Witness ==
  \E t, u \in AuthenticationCalls :
    /\ Kind(t) = "authS"
    /\ Kind(u) = "authA"
    /\ SourceOf(t) = SourceOf(u)
    /\ typeId[t] \in Range(StoredSourceKinds(typeId[SourceOf(t)]))
    /\ typeId[u] \in StoredKinds(typeId[SourceOf(u)], typeId[ApplicationOf(u)])

\* C17: an authentication creation call for a source carries the id returned
\* for the created source, one for an application the id returned for the
\* created application.
C17_AuthenticationCarriesResourceId ==
  \A t \in AuthenticationCalls :
    ResourceIDRaw(t) =
      IF Kind(t) = "authS"
      THEN ReturnedId(SourceOf(t))
      ELSE ReturnedId(ApplicationOf(t))

\* C18: once main has passed a tenant in a run without failure, the number
\* of rhc connection tasks started for the tenant is
\* config.RhcConnectionsPerTenant.
C18_RhcConnectionsPerTenant ==
  \A tn \in 1..config.Tenants :
    (faults = 0 /\ tenant > tn) =>
      Cardinality({t \in Spawned : Kind(t) = "rhcConnection" /\ t[1] = tn})
        = config.RhcConnectionsPerTenant

FairSpec == Spec /\ WF_vars(Next)

DependentsOf(t) ==
  CASE Kind(t) = "source" ->
         ApplicationsOf(config, t) \cup AuthSOf(config, t)
           \cup EndpointsOf(config, t) \cup RhcOf(config, t)
    [] Kind(t) = "application" -> AuthAOf(config, t)
    [] OTHER -> {}

\* C20: a source or application task whose creation call was answered with
\* a body that has no id adds nothing to a counter and starts no task.
C20_NoIdAbandonsUnit ==
  \A t \in DOMAIN pc :
    (Kind(t) \in {"source", "application"} /\ resp[t] = "noid") =>
      /\ incs[t] = 0
      /\ \A u \in DependentsOf(t) : pc[u] = "unspawned"

\* The number of started tasks of a kind that belong to the source s.
StartedOf(s, kind) ==
  Cardinality({t \in Spawned : Kind(t) = kind /\ SourceOf(t) = s})

SourceTasks == {t \in DOMAIN pc : Kind(t) = "source"}

\* The source was created: its goroutine is past "if !ok { return }".
PastCreation(s) == pc[s] \in {"apps", "authS", "endpoints", "rhc", "succeeded"}

\* C22 as stated: the application, source authentication, endpoint and rhc
\* connection tasks of a created source are all started together, none of
\* them after the tasks of another kind ended.
C22_KindsStartTogether ==
  \A s \in SourceTasks :
    PastCreation(s) => \A t \in DependentsOf(s) : pc[t] # "unspawned"

\* C22: the four kinds of tasks of a source run one after the other: a
\* source authentication task is started when every application task of the
\* source has ended, an endpoint task when every source authentication task
\* has, an rhc connection task when every endpoint task has.
C22_KindsInPhases ==
  \A s \in SourceTasks :
    /\ AuthSOf(config, s) \cap Spawned # {} =>
         \A t \in ApplicationsOf(config, s) : Terminal(t)
    /\ EndpointsOf(config, s) \cap Spawned # {} =>
         \A t \in ApplicationsOf(config, s) \cup AuthSOf(config, s) : Terminal(t)
    /\ RhcOf(config, s) \cap Spawned # {} =>
         \A t \in ApplicationsOf(config, s) \cup AuthSOf(config, s)
                   \cup EndpointsOf(config, s) : Terminal(t)

\* A source authentication task is in flight, after the application task of
\* its source ended, with an authentication task of that application.
C22_Witness ==
  \E t, u \in InFlight :
    /\ Kind(t) = "authS"
    /\ Kind(u) = "authA"
    /\ SourceOf(t) = SourceOf(u)
    /\ Terminal(ApplicationOf(u))

\* The task whose created resource the task t is made for.
ParentOf(t) == IF Kind(t) = "authA" THEN ApplicationOf(t) ELSE SourceOf(t)

\* C23: a creation call for an application, an endpoint, a source
\* authentication or an rhc connection is issued only when the creation call
\* of its source returned with success and the source task went on, one for
\* an application authentication only when the call of its application did
\* and the application task succeeded.
C23_ChildAfterParentSuccess ==
  \A t \in DOMAIN pc :
    (Kind(t) # "source" /\ calls[t] > 0) =>
      /\ calls[ParentOf(t)] = 1
      /\ Created(resp[ParentOf(t)])
      /\ PastCreation(SourceOf(t))
      /\ Kind(t) = "authA" => pc[ParentOf(t)] = "succeeded"

\* The creation of one source failed and none of its tasks is started, the
\* source next to it was created and the call for its application is issued.
C23_Witness ==
  \E s, t \in SourceTasks :
    /\ pc[s] = "failed"
    /\ resp[s] = "false"
    /\ LeavesOf(s) # {}
    /\ LeavesOf(s) \cap Spawned = {}
    /\ \E a \in ApplicationsOf(config, t) : calls[a] = 1

\* The state of the task state machine a goroutine at p is in: 0 not
\* started, 1 created, 2 awaiting the gate, 3 in flight (the call and what
\* follows it until the goroutine ends), 4 succeeded or failed.
Stage(p) ==
  CASE p = "unspawned" -> 0
    [] p \in {"created", "keysInit", "keysReady"} -> 1
    [] p = "awaiting" -> 2
    [] p \in {"succeeded", "failed"} -> 4
    [] OTHER -> 3

\* C24 as stated: a task stays where it is or moves to the next state of
\* created, awaiting the gate, in flight, succeeded or failed, and it does
\* not leave succeeded or failed.
C24_TaskStateMachine ==
  [][\A t \in DOMAIN pc :
       /\ Stage(pc'[t]) \in {Stage(pc[t]), Stage(pc[t]) + 1}
       /\ Terminal(t) => pc'[t] = pc[t]]_vars

\* C24: as above, but a task also moves from created to failed, without a
\* call, when the UUID or the encoding of its payload fails; a task that
\* succeeded went through the gate once.
C24_TaskStateMachineOrEarlyFailure ==
  [][\A t \in DOMAIN pc :
       /\ \/ Stage(pc'[t]) \in {Stage(pc[t]), Stage(pc[t]) + 1}
          \/ Stage(pc[t]) = 1 /\ pc'[t] = "failed" /\ calls[t] = 0
       /\ Terminal(t) => pc'[t] = pc[t]
       /\ pc'[t] = "succeeded" => calls'[t] = 1]_vars

\* A task failed without a call and another one succeeded after its call.
C24_Witness ==
  \E t, u \in DOMAIN pc :
    /\ pc[t] = "failed" /\ calls[t] = 0
    /\ pc[u] = "succeeded" /\ calls[u] = 1

\* The tasks whose payload holds a value picked in the database.
PicksInDatabase(t) == Kind(t) \in {"source", "application", "authS", "authA"}

\* C25: the elements of the channel are those of the tasks inside
\* sendCreationRequest, one each; such a task picked the values of its
\* payload before, and it has no result, has added nothing to a counter and
\* has started no task; a task that has its result, waits for other tasks or
\* has ended holds no element.
C25_UnitHeldOnlyAroundCall ==
  /\ ConcurrentRequests = Cardinality(InFlight)
  /\ \A t \in InFlight :
       /\ calls[t] = 1
       /\ PicksInDatabase(t) => typeId[t] # ""
       /\ resp[t] = "none"
       /\ incs[t] = 0
       /\ \A u \in DependentsOf(t) : pc[u] = "unspawned"
  /\ \A t \in DOMAIN pc : (resp[t] # "none" \/ incs[t] > 0) => t \notin InFlight

\* An application task has its result and has started its authentication
\* task while another task holds the only element of the channel.
C25_Witness ==
  /\ config.Capacity = 1
  /\ ConcurrentRequests = 1
  /\ \E t \in DOMAIN pc :
       /\ Kind(t) = "application"
       /\ pc[t] = "succeeded"
       /\ \E u \in AuthAOf(config, t) : pc[u] = "inflight"

\* The number of tasks of the kinds that have added 1 to their counter.
Incremented(kinds) ==
  Cardinality({t \in DOMAIN pc : Kind(t) \in kinds /\ incs[t] = 1})

\* C26: each counter is the number of tasks of its kind that have added 1
\* to it; a task adds 1 at most once, to the counter of its kind, when it
\* succeeds.
C26_NoLostUpdate ==
  /\ \A t \in DOMAIN pc :
       /\ incs[t] \in {0, 1}
       /\ incs[t] = 1 <=> pc[t] = "succeeded"
  /\ createdSourcesTotal = Incremented({"source"})
  /\ createdApplicationsTotal = Incremented({"application"})
  /\ createdAuthenticationsTotal = Incremented({"authS", "authA"})
  /\ createdEndpointsTotal = Incremented({"endpoint"})
  /\ createdRhcConnectionsTotal = Incremented({"rhcConnection"})

\* Two authentication goroutines that were running together have both
\* added 1 to createdAuthenticationsTotal.
C26_Witness ==
  /\ createdAuthenticationsTotal = 2
  /\ \E t, u \in DOMAIN pc :
       /\ Kind(t) = "authS" /\ incs[t] = 1
       /\ Kind(u) = "authA" /\ incs[u] = 1

\* C28: no goroutine is started before InitializeDatabase has returned;
\* until then the database is empty, and from then on it is what the pass
\* over the application types makes of what the pass over the source types
\* made of the empty database.
C28_CatalogBuiltBeforeTasks ==
  /\ Spawned # {} => dbPc = "ready"
  /\ dbPc # "ready" => Db = EmptyDb
  /\ dbPc = "ready" =>
       \E r \in Responses :
         /\ nRead = [sourceTypes |-> Len(r.sourceTypes),
                     applicationTypes |-> Len(r.applicationTypes)]
         /\ Db = getApplicationTypes(getSourceTypes(EmptyDb, r.sourceTypes),
                                     r.applicationTypes)

\* A source goroutine is started on a database where the second pass found
\* the source type of an application type.
C28_Witness ==
  /\ \E t \in Spawned : Kind(t) = "source"
  /\ \E id \in DOMAIN sourceTypes :
       /\ id # ""
       /\ sourceTypes[id].CompatibleApplicationTypes # EmptyMap

\* The authentication tasks of the sources whose type has no kind.
AuthSWithoutKind ==
  {t \in DOMAIN pc :
     /\ Kind(t) = "authS"
     /\ PastCreation(SourceOf(t))
     /\ StoredSourceKinds(typeId[SourceOf(t)]) = <<>>}

\* C30: the authentication task of a source whose type has no kind gets no
\* kind and issues no call: it is not started, or has not yet called
\* GetRandomAuthenticationTypeForSource, or the process ended there.
C30_EmptySourceListAborts ==
  \A t \in AuthSWithoutKind :
    /\ typeId[t] = ""
    /\ calls[t] = 0
    /\ pc[t] \in {"unspawned", "created"}

\* The process ended in the panic of a source authentication goroutine, the
\* only goroutines that were running.
C30_Witness ==
  /\ mainPc = "panicked"
  /\ \E t \in AuthSWithoutKind : pc[t] = "created"
  /\ \A t \in Spawned : Kind(t) = "authS" \/ pc[t] = "authS"

\* C34: every counter stays within the number of resources of its kind that
\* the configuration asks for: T*S sources, T*S*N applications, T*S*M
\* endpoints, T*S*L rhc connections and T*S*K*(1+N) authentications.
C34_CountersWithinTargets ==
  LET n == config.Tenants * config.SourcesPerTenant
  IN /\ createdSourcesTotal <= n
     /\ createdApplicationsTotal <= n * config.ApplicationsPerSource
     /\ createdEndpointsTotal <= n * config.EndpointsPerSource
     /\ createdRhcConnectionsTotal <= n * config.RhcConnectionsPerTenant
     /\ createdAuthenticationsTotal
          <= n * config.AuthenticationsPerResource
               * (1 + config.ApplicationsPerSource)

\* Every counter has reached its target, with authentications of a source
\* and of its application.
C34_Witness ==
  /\ Counters = FullCounters(config)
  /\ createdApplicationsTotal = 1
  /\ createdAuthenticationsTotal = 2
  /\ createdSourcesTotal = 1

\* The source tasks of the tenants before the tenant of the source task.
EarlierSources(s) == {p \in SourceTasks : p[1] < s[1]}

\* C36: when a source task of a tenant has been started, every source task
\* of the tenants before it has ended, with every application, source
\* authentication, endpoint and rhc connection task it started.
C36_TenantsOneAtATime ==
  \A s \in SourceTasks :
    pc[s] # "unspawned" =>
      /\ s[1] <= tenant
      /\ \A p \in EarlierSources(s) :
           /\ Terminal(p)
           /\ \A u \in DependentsOf(p) : pc[u] = "unspawned" \/ Terminal(u)

\* The creation call of a source of the second tenant has been issued; the
\* source of the first tenant was created with an endpoint.
C36_Witness ==
  \E s \in SourceTasks :
    /\ calls[s] = 1
    /\ \E p \in EarlierSources(s) :
         /\ pc[p] = "succeeded"
         /\ \E u \in EndpointsOf(config, p) : pc[u] = "succeeded"

\* The tasks that ended before sendCreationRequest: the UUID or the JSON
\* encoding of the payload failed.
FailedBeforeCall == {t \in DOMAIN pc : pc[t] = "failed" /\ calls[t] = 0}

\* C38: the step in which a task fails before its call leaves the channel
\* and the five counters as they were, and the task has no call, no slot and
\* no result, then and ever after.
C38_EarlyFailureChangesNothing ==
  [][/\ \A t \in FailedBeforeCall' \ FailedBeforeCall :
          /\ ConcurrentRequests' = ConcurrentRequests
          /\ UNCHANGED counterVars
          /\ resp'[t] = "none"
          /\ incs'[t] = 0
     /\ FailedBeforeCall \subseteq FailedBeforeCall']_vars

\* An endpoint or authentication task failed before its call while another
\* task holds an element of the channel.
C38_Witness ==
  /\ ConcurrentRequests = 1
  /\ \E t \in FailedBeforeCall : Kind(t) \in {"endpoint", "authS"}


(***************************************************************************)
(* The build of the database, one element of a response at a time, and the *)
(* queries of the built database (specification SpecCatalog).              *)
(***************************************************************************)
SourceTypeInputs ==
  {[Id |-> "1", Name |-> "openshift", Authentication |-> <<"token">>],
   [Id |-> "1", Name |-> "openshift", Authentication |-> <<"token", "basic">>],
   [Id |-> "2", Name |-> "amazon", Authentication |-> <<>>],
   [Id |-> "2", Name |-> "amazon", Authentication |-> <<"arn">>],
   [Id |-> "3", Name |-> ExcludedSourceTypeName, Authentication |-> <<"token">>]}

ApplicationTypeIds == {"10"}

SupportedSourceTypesInputs ==
  {<<"openshift">>, <<"amazon">>, <<"openshift", "amazon">>,
   <<ExcludedSourceTypeName>>}

\* supported_authentication_types: a missing name reads as the nil list.
SupportedAuthenticationTypesInputs ==
  {m \in [{"openshift", "amazon"} ->
            {NilSlice, MkSlice(<<>>), MkSlice(<<"token">>), MkSlice(<<"arn">>)}] :
     m["amazon"] \in {NilSlice, MkSlice(<<"arn">>)}}

ApplicationTypeInputs ==
  [Id : ApplicationTypeIds,
   SupportedSourceTypes : SupportedSourceTypesInputs,
   SupportedAuthenticationTypes : SupportedAuthenticationTypesInputs]

NoRun ==
  [Tenants |-> 0, SourcesPerTenant |-> 0, ApplicationsPerSource |-> 0,
   EndpointsPerSource |-> 0, AuthenticationsPerResource |-> 0,
   RhcConnectionsPerTenant |-> 0, Capacity |-> 1]

InitCatalog ==
  /\ InitRun
  /\ config = NoRun
  /\ mainPc = "initdb"
  /\ health = "ok"
  /\ pc = EmptyMap
  /\ typeId = EmptyMap
  /\ resp = EmptyMap
  /\ calls = EmptyMap
  /\ incs = EmptyMap

runVars ==
  <<config, ConcurrentRequests, counterVars, mainVars, taskVars, faults>>

\* One pass of the loop over responseBody.SourceTypes.
getSourceTypesLoop ==
  /\ dbPc = "getSourceTypes"
  /\ nRead.sourceTypes < MaxSourceTypesLoad
  /\ \E st \in SourceTypeInputs :
       /\ sourceNameId' = LoadSourceType(Db, st).sourceNameId
       /\ sourceTypes' = LoadSourceType(Db, st).sourceTypes
       /\ srcLoaded' = ReadSourceTypes(srcLoaded, <<st>>)
  /\ nRead' = [nRead EXCEPT !.sourceTypes = @ + 1]
  /\ UNCHANGED <<sourceTypesKeys, dbPc, declared, contributed, ret, runVars>>

\* getSourceTypes returns and getApplicationTypes is called.
getSourceTypesReturn ==
  /\ dbPc = "getSourceTypes"
  /\ dbPc' = "getApplicationTypes"
  /\ UNCHANGED <<catVars, srcLoaded, declared, contributed, nRead, ret, runVars>>

\* One pass of the loop over responseBody.AppTypes.
getApplicationTypesLoop ==
  /\ dbPc = "getApplicationTypes"
  /\ nRead.applicationTypes < MaxApplicationTypesLoad
  /\ \E appType \in ApplicationTypeInputs :
       /\ sourceNameId' = LoadApplicationType(Db, appType).sourceNameId
       /\ sourceTypes' = LoadApplicationType(Db, appType).sourceTypes
       /\ declared' = ReadDeclared(declared, <<appType>>)
       /\ contributed' = ReadContributed(contributed, Db, <<appType>>)
  /\ nRead' = [nRead EXCEPT !.applicationTypes = @ + 1]
  /\ UNCHANGED <<sourceTypesKeys, dbPc, srcLoaded, ret, runVars>>

\* InitializeDatabase returns.
getApplicationTypesReturn ==
  /\ dbPc = "getApplicationTypes"
  /\ dbPc' = "ready"
  /\ UNCHANGED <<catVars, srcLoaded, declared, contributed, nRead, ret, runVars>>

\* A query that panics ends the process.
Answer(op, src, app, v) ==
  /\ ret' = [op |-> op, src |-> src, app |-> app, value |-> v]
  /\ dbPc' = IF v = Panic THEN "panicked" ELSE dbPc

QueryGetRandomSourceType ==
  /\ dbPc = "ready"
  /\ sourceTypesKeys' =
       IF sourceTypesKeys.nil
       THEN GoAppend(sourceTypesKeys, MkSlice(SetToSeq(DOMAIN sourceTypes)))
       ELSE sourceTypesKeys
  /\ \E v \in GetRandomSourceTypeFrom(Db, sourceTypesKeys') :
       Answer("GetRandomSourceType", "", "", v)
  /\ UNCHANGED <<sourceNameId, sourceTypes, srcLoaded, declared, contributed,
                 nRead, runVars>>

QueryGetRandomAuthenticationTypeForSource ==
  /\ dbPc = "ready"
  /\ \E src \in DOMAIN sourceTypes :
       \E v \in GetRandomAuthenticationTypeForSource(Db, src) :
         Answer("GetRandomAuthenticationTypeForSource", src, "", v)
  /\ UNCHANGED <<catVars, srcLoaded, declared, contributed, nRead, runVars>>

QueryGetRandomAuthenticationTypeForApplication ==
  /\ dbPc = "ready"
  /\ \E src \in DOMAIN sourceTypes, app \in ApplicationTypeIds :
       \E v \in GetRandomAuthenticationTypeForApplication(Db, src, app) :
         Answer("GetRandomAuthenticationTypeForApplication", src, app, v)
  /\ UNCHANGED <<catVars, srcLoaded, declared, contributed, nRead, runVars>>

NextCatalog ==
  \/ getSourceTypesLoop
  \/ getSourceTypesReturn
  \/ getApplicationTypesLoop
  \/ getApplicationTypesReturn
  \/ QueryGetRandomSourceType
  \/ QueryGetRandomAuthenticationTypeForSource
  \/ QueryGetRandomAuthenticationTypeForApplication

SpecCatalog == InitCatalog /\ [][NextCatalog]_vars

(***************************************************************************)
(* Properties of the database (specification SpecCatalog).                 *)
(***************************************************************************)
\* C9: when an application type is given to the same source type more than
\* once, the list stored for the pair holds every kind of every list given.
C9_SecondContributionMerged ==
  \A pair \in DOMAIN contributed :
    \A i \in DOMAIN contributed[pair] :
      Range(contributed[pair][i]) \subseteq StoredKinds(pair[1], pair[2])

\* The kinds declared for the application type under the name of the source
\* type.
DeclaredFor(sourceTypeId, applicationTypeId) ==
  {k \in {"token", "basic", "arn"} :
     <<MapGet(sourceTypes, sourceTypeId, ZeroSourceType).Name,
       applicationTypeId, k>> \in declared}

\* C10: the list stored for a pair (source type, application type) holds only
\* kinds declared under the name of that source type, and
\* GetRandomAuthenticationTypeForApplication returns no other kind.
C10_NoKindOfAnotherSourceType ==
  /\ \A id \in DOMAIN sourceTypes :
       \A app \in DOMAIN sourceTypes[id].CompatibleApplicationTypes :
         StoredKinds(id, app) \subseteq DeclaredFor(id, app)
  /\ ret.op = "GetRandomAuthenticationTypeForApplication" =>
       ret.value \in DeclaredFor(ret.src, ret.app)
                       \cup {NoAuthenticationSentinel, Panic}

\* One application type is compatible with two source types, a kind is
\* declared for it under the name of the second only, and the query for the
\* first returned a kind.
C10_Witness ==
  /\ ret.op = "GetRandomAuthenticationTypeForApplication"
  /\ ret.value \in DeclaredFor(ret.src, ret.app)
  /\ \E other \in DOMAIN sourceTypes :
       /\ other # ret.src
       /\ ret.app \in DOMAIN sourceTypes[other].CompatibleApplicationTypes
       /\ StoredKinds(other, ret.app) # {}
       /\ DeclaredFor(other, ret.app) \ DeclaredFor(ret.src, ret.app) # {}

\* C11: for a pair (source type, application type) whose stored list holds no
\* kind, absent or present with zero elements,
\* GetRandomAuthenticationTypeForApplication returns the sentinel and does
\* not fail.
C11_EmptyListGivesSentinel ==
  (/\ ret.op = "GetRandomAuthenticationTypeForApplication"
   /\ StoredKinds(ret.src, ret.app) = {})
  => ret.value = NoAuthenticationSentinel

\* C12: for a source type of the database whose list of kinds is not empty,
\* the list is the one a read source type of that id gave, and
\* GetRandomAuthenticationTypeForSource returns one of its elements.
C12_SourceKindFromItsList ==
  /\ \A id \in DOMAIN sourceTypes :
       StoredSourceKinds(id) # <<>> =>
         \E st \in srcLoaded :
           st.Id = id /\ st.Authentication = StoredSourceKinds(id)
  /\ (/\ ret.op = "GetRandomAuthenticationTypeForSource"
      /\ StoredSourceKinds(ret.src) # <<>>)
     => ret.value \in Range(StoredSourceKinds(ret.src))

\* The query was made for a source type read with two kinds and returned the
\* second of them.
C12_Witness ==
  /\ ret.op = "GetRandomAuthenticationTypeForSource"
  /\ StoredSourceKinds(ret.src) = <<"token", "basic">>
  /\ ret.value = "basic"

\* C13: GetRandomSourceType returns the id of an entry whose id and name are
\* those of a read source type that does not carry the excluded name.
C13_RandomSourceTypeWasLoaded ==
  (ret.op = "GetRandomSourceType" /\ ret.value # Panic) =>
    \E st \in srcLoaded :
      /\ st.Name # ExcludedSourceTypeName
      /\ st.Id = ret.value
      /\ st.Name = MapGet(sourceTypes, ret.value, ZeroSourceType).Name

\* C14: no entry of sourceTypes carries the excluded name and sourceNameId
\* has no key for it.
C14_ExcludedNeverInserted ==
  /\ \A id \in DOMAIN sourceTypes : sourceTypes[id].Name # ExcludedSourceTypeName
  /\ ExcludedSourceTypeName \notin DOMAIN sourceNameId
  /\ \A st \in srcLoaded :
       st.Name = ExcludedSourceTypeName => st.Id \notin DOMAIN sourceTypes

\* A source type of the excluded name was read, an application type named
\* it as supported, and the build is over.
C14_Witness ==
  /\ dbPc = "ready"
  /\ \E st \in srcLoaded : st.Name = ExcludedSourceTypeName
  /\ nRead.applicationTypes > 0
  /\ "" \in DOMAIN sourceTypes


(***************************************************************************)
(* The three functions that write the database, called in any order on any *)
(* database they can build (specification SpecCalls).  ret holds the call, *)
(* its number and the database it was made on.                             *)
(***************************************************************************)
CallSourceTypeIds == {"1", "2"}

CallSourceTypeNames == {"openshift", "amazon"}

CallAuthenticationTypes == {"token", "arn"}

CallSupportedAuthenticationTypes ==
  {[n \in {"openshift"} |-> MkSlice(<<"token">>)],
   [n \in {"openshift", "amazon"} |->
      IF n = "openshift" THEN MkSlice(<<"token">>) ELSE MkSlice(<<"arn">>)]}

CallsMade == IF ret.op = "none" THEN 0 ELSE ret.n

Called(op, id, name, names) ==
  /\ CallsMade < MaxCalls
  /\ ret' = [op |-> op, n |-> CallsMade + 1, before |-> Db,
             id |-> id, name |-> name, names |-> names]
  /\ UNCHANGED <<sourceTypesKeys, dbPc, srcLoaded, declared, contributed,
                 nRead, runVars>>

CallCreateSourceType ==
  \E id \in CallSourceTypeIds, name \in CallSourceTypeNames :
    /\ sourceNameId' = CreateSourceType(Db, id, name).sourceNameId
    /\ sourceTypes' = CreateSourceType(Db, id, name).sourceTypes
    /\ Called("CreateSourceType", id, name, <<>>)

CallAddAuthenticationType ==
  \E id \in DOMAIN sourceTypes, kind \in CallAuthenticationTypes :
    /\ sourceNameId' = AddAuthenticationType(Db, id, kind).sourceNameId
    /\ sourceTypes' = AddAuthenticationType(Db, id, kind).sourceTypes
    /\ Called("AddAuthenticationType", id, kind, <<>>)

CallAddCompatibleApplicationType ==
  \E app \in ApplicationTypeIds, names \in SupportedSourceTypesInputs,
     auths \in CallSupportedAuthenticationTypes :
    /\ sourceNameId' =
         AddCompatibleApplicationType(Db, app, names, auths).sourceNameId
    /\ sourceTypes' =
         AddCompatibleApplicationType(Db, app, names, auths).sourceTypes
    /\ Called("AddCompatibleApplicationType", app, "", names)

NextCalls ==
  \/ CallCreateSourceType
  \/ CallAddAuthenticationType
  \/ CallAddCompatibleApplicationType

SpecCalls == InitCatalog /\ [][NextCalls]_vars

\* The ids the names resolved to in the database the call was made on.
ResolvedIds ==
  {ret.before.sourceNameId[n] :
     n \in Range(ret.names) \cap DOMAIN ret.before.sourceNameId}

\* C27: a call of AddCompatibleApplicationType leaves every entry but those
\* of the source types its names resolve to as it was, and creates none:
\* for a name that does not resolve the database is unchanged.
C27_UnresolvedNameSkipped ==
  ret.op = "AddCompatibleApplicationType" =>
    /\ sourceNameId = ret.before.sourceNameId
    /\ DOMAIN sourceTypes = DOMAIN ret.before.sourceTypes
    /\ \A k \in DOMAIN sourceTypes \ ResolvedIds :
         sourceTypes[k] = ret.before.sourceTypes[k]

\* C29: after CreateSourceType the entry of the id holds the id and the name
\* of the call, no authentication kind and no application type, whatever it
\* held before; no other entry has the id, and the other entries are as they
\* were.
C29_CreateSourceTypeOverwrites ==
  ret.op = "CreateSourceType" =>
    /\ ret.id \in DOMAIN sourceTypes
    /\ sourceTypes[ret.id] =
         [Id |-> ret.id, Name |-> ret.name,
          CompatibleAuthentications |-> NilSlice,
          CompatibleApplicationTypes |-> EmptyMap]
    /\ {k \in DOMAIN sourceTypes : sourceTypes[k].Id = ret.id} = {ret.id}
    /\ DOMAIN sourceTypes = DOMAIN ret.before.sourceTypes \cup {ret.id}
    /\ \A k \in DOMAIN sourceTypes \ {ret.id} :
         sourceTypes[k] = ret.before.sourceTypes[k]

\* The second call was made on an entry of another name that held an
\* authentication kind and an application type.
C29_Witness ==
  /\ ret.op = "CreateSourceType"
  /\ ret.id \in DOMAIN ret.before.sourceTypes
  /\ ret.before.sourceTypes[ret.id].Name \notin {"", ret.name}
  /\ ret.before.sourceTypes[ret.id].CompatibleAuthentications.elems # <<>>
  /\ ret.before.sourceTypes[ret.id].CompatibleApplicationTypes # EmptyMap


(***************************************************************************)
(* ParseConfig of package config: the environment, and what the program    *)
(* starts with (specification SpecConfig).  A value of the environment is  *)
(* a sequence of characters; an unset variable is the empty sequence.      *)
(***************************************************************************)
defaultConcurrentRequests == 10

EnvChars == {"-", "+", "0", "1", "2", "x"}

EnvStrings == UNION {[1..n -> EnvChars] : n \in 0..MaxEnvLen}

Environments ==
  [SOURCES_API_HOST : {"", "http://localhost"},
   SOURCES_API_PORT : {"", "0", "8000"},
   CONCURRENT_REQUESTS : EnvStrings]

DigitValue(ch) == CASE ch = "0" -> 0 [] ch = "1" -> 1 [] ch = "2" -> 2

RECURSIVE ParseDigits(_, _)
ParseDigits(s, acc) ==
  IF s = <<>> THEN acc
  ELSE ParseDigits(Tail(s), acc * 10 + DigitValue(Head(s)))

\* strconv.Atoi: an optional sign, then one decimal digit or more.
Atoi(s) ==
  LET signed == s # <<>> /\ Head(s) \in {"-", "+"}
      digits == IF signed THEN Tail(s) ELSE s
  IN IF digits = <<>> \/ \E i \in DOMAIN digits : digits[i] \notin {"0", "1", "2"}
     THEN [err |-> TRUE, n |-> 0]
     ELSE [err |-> FALSE,
           n |-> IF Head(s) = "-" THEN 0 - ParseDigits(digits, 0)
                 ELSE ParseDigits(digits, 0)]

\* The part of ParseConfig for CONCURRENT_REQUESTS with "if tmp < 0".
ParseConcurrentRequests_ZeroAllowed(concurrentRequests) ==
  IF concurrentRequests = <<>>
  THEN [fatal |-> FALSE, capacity |-> defaultConcurrentRequests]
  ELSE LET tmp == Atoi(concurrentRequests)
       IN IF tmp.err THEN [fatal |-> TRUE, capacity |-> 0]
          ELSE IF tmp.n < 0
               THEN [fatal |-> FALSE, capacity |-> defaultConcurrentRequests]
               ELSE [fatal |-> FALSE, capacity |-> tmp.n]

\* The part of ParseConfig for CONCURRENT_REQUESTS: the capacity of the
\* channel it makes, or log.Fatalf.
ParseConcurrentRequests(concurrentRequests) ==
  IF concurrentRequests = <<>>
  THEN [fatal |-> FALSE, capacity |-> defaultConcurrentRequests]
  ELSE LET tmp == Atoi(concurrentRequests)
       IN IF tmp.err THEN [fatal |-> TRUE, capacity |-> 0]
          ELSE IF tmp.n < 1
               THEN [fatal |-> FALSE, capacity |-> defaultConcurrentRequests]
               ELSE [fatal |-> FALSE, capacity |-> tmp.n]

InitConfig ==
  /\ InitRun
  /\ \E env \in Environments : config = [env |-> env]
  /\ mainPc = "parseconfig"
  /\ health = "pending"
  /\ pc = EmptyMap
  /\ typeId = EmptyMap
  /\ resp = EmptyMap
  /\ calls = EmptyMap
  /\ incs = EmptyMap

\* config.ParseConfig(), the first statement of main.
mainParseConfig ==
  /\ mainPc = "parseconfig"
  /\ LET env == config.env
         parsed == ParseConcurrentRequests(env.CONCURRENT_REQUESTS)
     IN IF \/ env.SOURCES_API_HOST = ""
           \/ env.SOURCES_API_PORT \in {"", "0"}
           \/ parsed.fatal
        THEN /\ mainPc' = "fatal"
             /\ UNCHANGED config
        ELSE /\ mainPc' = "healthcheck"
             /\ config' = [env |-> env, Capacity |-> parsed.capacity]
  /\ UNCHANGED <<catVars, buildVars, ConcurrentRequests, counterVars, health,
                 tenant, report, taskVars, faults>>

NextConfig == mainParseConfig

SpecConfig == InitConfig /\ [][NextConfig]_vars

\* C37: when ParseConfig has returned, the capacity of the channel is at
\* least 1: it is 10 when CONCURRENT_REQUESTS is unset or is a number below
\* 1, and the number itself when that is 1 or more.
C37_CapacityAtLeastOne ==
  mainPc = "healthcheck" =>
    LET v == config.env.CONCURRENT_REQUESTS
        c == config.Capacity
    IN /\ c >= 1
       /\ v = <<>> => c = 10
       /\ v # <<>> =>
            /\ ~Atoi(v).err
            /\ Atoi(v).n < 1 => c = 10
            /\ Atoi(v).n >= 1 => c = Atoi(v).n
       /\ v \in {<<"0">>, <<"-", "1">>, <<"-", "0">>} => c = 10
       /\ v = <<"2">> => c = 2
       /\ v = <<"+", "1">> => c = 1
       /\ v = <<"1", "2">> => c = 12

\* The program started with CONCURRENT_REQUESTS=-1 and a channel of 10.
C37_Witness ==
  /\ mainPc = "healthcheck"
  /\ config.env.CONCURRENT_REQUESTS = <<"-", "1">>
  /\ config.Capacity = 10


(***************************************************************************)
(* The payloads of the source and endpoint creation requests               *)
(* (specification SpecPayload): ret keeps the payload that was built last  *)
(* and every payload built so far.                                         *)
(***************************************************************************)
availabilityStatuses ==
  <<"available", "in_progress", "partially_available", "unavailable">>

endpointAvailabilityStatuses == <<"available", "unavailable">>

appCreationWorkflows == <<"account_authorization", "manual_configuration">>

\* rand.Intn(n): an index in [0, n).
RandIntn(n) == 0..(n - 1)

\* An element of a Go array, whose first index is 0.
At(array, idx) == array[idx + 1]

getRandomAppCreationWorkflow ==
  {At(appCreationWorkflows, idx) : idx \in RandIntn(1)}

\* getRandomAvailabilityStatus with rand.Intn(len(availabilityStatuses)).
getRandomAvailabilityStatus_WholeArray ==
  {At(availabilityStatuses, idx) : idx \in RandIntn(Len(availabilityStatuses))}

getRandomAvailabilityStatus ==
  {At(availabilityStatuses, idx) : idx \in RandIntn(3)}

getRandomEndpointAvailabilityStatus ==
  {At(endpointAvailabilityStatuses, idx) : idx \in RandIntn(2)}

\* The model.SourceCreateRequest values createSource can build for the
\* source type it picked (the name and the uid are left out).
SourceCreateRequest(st) ==
  [AppCreationWorkflow : getRandomAppCreationWorkflow,
   AvailabilityStatus : getRandomAvailabilityStatus,
   SourceTypeIDRaw : {st}]

\* The model.EndpointCreateRequest values createEndpoints can build for the
\* source (host, path and role are left out).
EndpointCreateRequest(sourceId) ==
  [AvailabilityStatus : getRandomEndpointAvailabilityStatus,
   SourceIDRaw : {sourceId}]

\* What createSource hands to createEndpoints: the Id of the response.
SourceIdInputs == {"", "101"}

Built == IF ret.op = "none" THEN {} ELSE ret.built

Build(op, payload) ==
  ret' = [op |-> op, payload |-> payload,
          built |-> Built \cup {[op |-> op, payload |-> payload]}]

\* createSource up to json.Marshal(source).
PayloadCreateSource ==
  /\ mainPc = "loop"
  /\ \E st \in GetRandomSourceTypeFrom(
                 Db, MkSlice(SetToSeq(DOMAIN sourceTypes))) \ {Panic} :
       \E source \in SourceCreateRequest(st) : Build("createSource", source)
  /\ UNCHANGED <<catVars, dbPc, srcLoaded, declared, contributed, nRead,
                 runVars>>

\* A goroutine of createEndpoints up to json.Marshal(endpoint).
PayloadCreateEndpoints ==
  /\ mainPc = "loop"
  /\ \E sourceId \in SourceIdInputs :
       \E endpoint \in EndpointCreateRequest(sourceId) :
         Build("createEndpoints", endpoint)
  /\ UNCHANGED <<catVars, dbPc, srcLoaded, declared, contributed, nRead,
                 runVars>>

NextPayload ==
  \/ mainInitializeDatabase
  \/ PayloadCreateSource
  \/ PayloadCreateEndpoints

SpecPayload == InitCatalog /\ [][NextPayload]_vars

\* C39: every source payload has the app creation workflow
\* "account_authorization" and the availability status "available",
\* "in_progress" or "partially_available"; every endpoint payload has one of
\* the two availability statuses of endpoints.
C39_SourcePayloadValues ==
  \A b \in Built :
    /\ b.op = "createSource" =>
         /\ b.payload.AppCreationWorkflow = "account_authorization"
         /\ b.payload.AvailabilityStatus
              \in {"available", "in_progress", "partially_available"}
    /\ b.op = "createEndpoints" =>
         b.payload.AvailabilityStatus \in {"available", "unavailable"}

\* Source payloads were built with each of the three statuses, and endpoint
\* payloads with each of the two.
C39_Witness ==
  /\ \A a \in {"available", "in_progress", "partially_available"} :
       \E b \in Built : b.op = "createSource" /\ b.payload.AvailabilityStatus = a
  /\ \A a \in {"available", "unavailable"} :
       \E b \in Built :
         b.op = "createEndpoints" /\ b.payload.AvailabilityStatus = a


(***************************************************************************)
(* The sequential program (specification SpecSequential): the same units,  *)
(* created one after the other by loops that repeat an iteration until it  *)
(* succeeds.  A unit is "unspawned" until its creation succeeded.  A       *)
(* source is then at "authS" (createAuthenticationsSource is called),      *)
(* "authSLoop", "apps", "endpoints" and "rhc", and "succeeded" when it is  *)
(* counted; an application is at "authA", "authALoop", then "succeeded".   *)
(***************************************************************************)
\* The index of the unit in the loop that creates it.
Index(t) ==
  CASE Kind(t) = "source" -> t[2]
    [] Kind(t) \in {"authS", "authA"} -> t[5]
    [] OTHER -> t[4]

\* The loop over the group is at the iteration of t.
IsNextOf(t, group) ==
  /\ t \in group
  /\ pc[t] = "unspawned"
  /\ \A u \in group : Index(u) < Index(t) => pc[u] = "succeeded"

\* The loop that creates the unit, and the state of what called it.
AtUnit(t) ==
  /\ mainPc = "loop"
  /\ CASE Kind(t) = "source" ->
            t[1] = tenant /\ IsNextOf(t, SourcesOfTenant(config, tenant))
       [] Kind(t) = "authS" ->
            pc[SourceOf(t)] = "authSLoop"
              /\ IsNextOf(t, AuthSOf(config, SourceOf(t)))
       [] Kind(t) = "application" ->
            pc[SourceOf(t)] = "apps"
              /\ IsNextOf(t, ApplicationsOf(config, SourceOf(t)))
       [] Kind(t) = "authA" ->
            pc[ApplicationOf(t)] = "authALoop"
              /\ IsNextOf(t, AuthAOf(config, ApplicationOf(t)))
       [] Kind(t) = "endpoint" ->
            pc[SourceOf(t)] = "endpoints"
              /\ IsNextOf(t, EndpointsOf(config, SourceOf(t)))
       [] OTHER ->
            pc[SourceOf(t)] = "rhc" /\ IsNextOf(t, RhcOf(config, SourceOf(t)))

\* An iteration with the index in the for clause: a failed unit is left.
SeqIteration_AdvancesOnFailure(t, picks, store, next) ==
  /\ AtUnit(t)
  /\ \/ /\ Panic \in picks
        /\ mainPc' = "panicked"
        /\ UNCHANGED <<pc, typeId, resp, calls, faults>>
     \/ /\ \E v \in picks \ {Panic} :
             typeId' = IF store THEN [typeId EXCEPT ![t] = v] ELSE typeId
        /\ \/ /\ faults < MaxRetries
              /\ faults' = faults + 1
              /\ pc' = [pc EXCEPT ![t] = next]
              /\ UNCHANGED <<resp, calls>>
           \/ \E outcome \in Outcomes :
                LET r == sendCreationRequest(outcome)
                IN /\ ~Created(r) => faults < MaxRetries
                   /\ faults' = IF Created(r) THEN faults ELSE faults + 1
                   /\ calls' = [calls EXCEPT ![t] = @ + 1]
                   /\ resp' = [resp EXCEPT ![t] = r]
                   /\ pc' = [pc EXCEPT ![t] = next]
        /\ UNCHANGED mainPc

\* An iteration that leaves the unit when its second call has failed.
SeqIteration_RetriesOnce(t, picks, store, next) ==
  /\ AtUnit(t)
  /\ \/ /\ Panic \in picks
        /\ mainPc' = "panicked"
        /\ UNCHANGED <<pc, typeId, resp, calls, faults>>
     \/ /\ \E v \in picks \ {Panic} :
             typeId' = IF store THEN [typeId EXCEPT ![t] = v] ELSE typeId
        /\ \/ /\ faults < MaxRetries
              /\ faults' = faults + 1
              /\ UNCHANGED <<pc, resp, calls>>
           \/ \E outcome \in Outcomes :
                LET r == sendCreationRequest(outcome)
                IN /\ ~Created(r) => faults < MaxRetries
                   /\ faults' = IF Created(r) THEN faults ELSE faults + 1
                   /\ calls' = [calls EXCEPT ![t] = @ + 1]
                   /\ resp' = [resp EXCEPT ![t] = r]
                   /\ pc' = IF Created(r) \/ calls[t] >= 1
                            THEN [pc EXCEPT ![t] = next] ELSE pc
        /\ UNCHANGED mainPc

\* One iteration of a creation loop: the random pick in the database (a
\* panic ends the process), the UUID and the JSON encoding, the call of
\* sendCreationRequest and the decoding of the body.  Every failure is a
\* "continue" of a loop that has no increment in its for clause; the index
\* is incremented at the end of the body.
SeqIteration(t, picks, store, next) ==
  /\ AtUnit(t)
  /\ \/ /\ Panic \in picks
        /\ mainPc' = "panicked"
        /\ UNCHANGED <<pc, typeId, resp, calls, faults>>
     \/ /\ \E v \in picks \ {Panic} :
             typeId' = IF store THEN [typeId EXCEPT ![t] = v] ELSE typeId
        /\ \/ /\ faults < MaxRetries
              /\ faults' = faults + 1
              /\ UNCHANGED <<pc, resp, calls>>
           \/ \E outcome \in Outcomes :
                LET r == sendCreationRequest(outcome)
                IN /\ ~Created(r) => faults < MaxRetries
                   /\ faults' = IF Created(r) THEN faults ELSE faults + 1
                   /\ calls' = [calls EXCEPT ![t] = @ + 1]
                   /\ resp' = [resp EXCEPT ![t] = r]
                   /\ pc' = IF Created(r) THEN [pc EXCEPT ![t] = next] ELSE pc
        /\ UNCHANGED mainPc

\* counter++ at the end of the body of the loop: 1 when the iteration of t
\* got there.
CountedIn(t) ==
  IF pc'[t] = "succeeded" /\ pc[t] # "succeeded" /\ Created(resp'[t])
  THEN 1 ELSE 0

\* The iteration of the loop of createSource up to the source it created.
seqCreateSource(t) ==
  /\ Kind(t) = "source"
  /\ LET keys ==
           IF sourceTypesKeys.nil
           THEN GoAppend(sourceTypesKeys, MkSlice(SetToSeq(DOMAIN sourceTypes)))
           ELSE sourceTypesKeys
     IN /\ SeqIteration(t, GetRandomSourceTypeFrom(Db, keys), TRUE, "authS")
        /\ sourceTypesKeys' = keys
  /\ UNCHANGED <<sourceNameId, sourceTypes, buildVars, config,
                 ConcurrentRequests, counterVars, health, tenant, report, incs>>

\* The authentication type picked once for the resource, before the loop of
\* createAuthentications.
SeqPickAuthType(p, picks, group, next) ==
  /\ mainPc = "loop"
  /\ \/ /\ Panic \in picks
        /\ mainPc' = "panicked"
        /\ UNCHANGED <<pc, typeId>>
     \/ /\ \E v \in picks \ {Panic} :
             typeId' = [t \in DOMAIN typeId |->
                          IF t \in group THEN v ELSE typeId[t]]
        /\ pc' = [pc EXCEPT ![p] = next]
        /\ UNCHANGED mainPc
  /\ UNCHANGED <<catVars, buildVars, config, ConcurrentRequests, counterVars,
                 health, tenant, report, resp, calls, incs, faults>>

seqCreateAuthenticationsSource(s) ==
  /\ Kind(s) = "source"
  /\ pc[s] = "authS"
  /\ SeqPickAuthType(s, GetRandomAuthenticationTypeForSource(Db, typeId[s]),
                     AuthSOf(config, s), "authSLoop")

seqCreateAuthenticationsApplication(a) ==
  /\ Kind(a) = "application"
  /\ pc[a] = "authA"
  /\ SeqPickAuthType(a,
                     GetRandomAuthenticationTypeForApplication(
                       Db, typeId[SourceOf(a)], typeId[a]),
                     AuthAOf(config, a), "authALoop")

\* An iteration of the loop of createAuthentications.
seqCreateAuthentications(t) ==
  /\ Kind(t) \in {"authS", "authA"}
  /\ SeqIteration(t, {"none"}, FALSE, "succeeded")
  /\ createdAuthenticationsTotal' = createdAuthenticationsTotal + CountedIn(t)
  /\ incs' = [incs EXCEPT ![t] = @ + CountedIn(t)]
  /\ UNCHANGED <<catVars, buildVars, config, ConcurrentRequests,
                 createdApplicationsTotal, createdEndpointsTotal,
                 createdRhcConnectionsTotal, createdSourcesTotal, health,
                 tenant, report>>

\* createAuthentications returns to createAuthenticationsSource, and that
\* to createSource, which calls createApplications.
seqCreateAuthenticationsSourceReturn(s) ==
  /\ mainPc = "loop"
  /\ Kind(s) = "source"
  /\ pc[s] = "authSLoop"
  /\ \A u \in AuthSOf(config, s) : pc[u] = "succeeded"
  /\ pc' = [pc EXCEPT ![s] = "apps"]
  /\ UNCHANGED <<catVars, buildVars, config, ConcurrentRequests, counterVars,
                 mainVars, typeId, resp, calls, incs, faults>>

\* An iteration of the loop of createApplications up to the application it
\* created.
seqCreateApplications(t) ==
  /\ Kind(t) = "application"
  /\ SeqIteration(t, GetRandomApplicationType(Db, typeId[SourceOf(t)]), TRUE,
                  "authA")
  /\ UNCHANGED <<catVars, buildVars, config, ConcurrentRequests, counterVars,
                 health, tenant, report, incs>>

\* createAuthenticationsApplication has returned: createdApplicationsTotal++
\* and i++ of createApplications.
seqCreateApplicationsCount(a) ==
  /\ mainPc = "loop"
  /\ Kind(a) = "application"
  /\ pc[a] = "authALoop"
  /\ \A u \in AuthAOf(config, a) : pc[u] = "succeeded"
  /\ pc' = [pc EXCEPT ![a] = "succeeded"]
  /\ createdApplicationsTotal' = createdApplicationsTotal + 1
  /\ incs' = [incs EXCEPT ![a] = @ + 1]
  /\ UNCHANGED <<catVars, buildVars, config, ConcurrentRequests,
                 createdAuthenticationsTotal, createdEndpointsTotal,
                 createdRhcConnectionsTotal, createdSourcesTotal, mainVars,
                 typeId, resp, calls, faults>>

\* createApplications returns to createSource, which calls createEndpoints.
seqCreateApplicationsReturn(s) ==
  /\ mainPc = "loop"
  /\ Kind(s) = "source"
  /\ pc[s] = "apps"
  /\ \A u \in ApplicationsOf(config, s) : pc[u] = "succeeded"
  /\ pc' = [pc EXCEPT ![s] = "endpoints"]
  /\ UNCHANGED <<catVars, buildVars, config, ConcurrentRequests, counterVars,
                 mainVars, typeId, resp, calls, incs, faults>>

\* An iteration of the loop of createEndpoints.
seqCreateEndpoints(t) ==
  /\ Kind(t) = "endpoint"
  /\ SeqIteration(t, {"none"}, FALSE, "succeeded")
  /\ createdEndpointsTotal' = createdEndpointsTotal + CountedIn(t)
  /\ incs' = [incs EXCEPT ![t] = @ + CountedIn(t)]
  /\ UNCHANGED <<catVars, buildVars, config, ConcurrentRequests,
                 createdApplicationsTotal, createdAuthenticationsTotal,
                 createdRhcConnectionsTotal, createdSourcesTotal, health,
                 tenant, report>>

\* createEndpoints returns to createSource, which calls createRhcConnections.
seqCreateEndpointsReturn(s) ==
  /\ mainPc = "loop"
  /\ Kind(s) = "source"
  /\ pc[s] = "endpoints"
  /\ \A u \in EndpointsOf(config, s) : pc[u] = "succeeded"
  /\ pc' = [pc EXCEPT ![s] = "rhc"]
  /\ UNCHANGED <<catVars, buildVars, config, ConcurrentRequests, counterVars,
                 mainVars, typeId, resp, calls, incs, faults>>

\* An iteration of the loop of createRhcConnections.
seqCreateRhcConnections(t) ==
  /\ Kind(t) = "rhcConnection"
  /\ SeqIteration(t, {"none"}, FALSE, "succeeded")
  /\ createdRhcConnectionsTotal' = createdRhcConnectionsTotal + CountedIn(t)
  /\ incs' = [incs EXCEPT ![t] = @ + CountedIn(t)]
  /\ UNCHANGED <<catVars, buildVars, config, ConcurrentRequests,
                 createdApplicationsTotal, createdAuthenticationsTotal,
                 createdEndpointsTotal, createdSourcesTotal, health, tenant,
                 report>>

\* createRhcConnections has returned: createdSourcesTotal++ and i++ of
\* createSource.
seqCreateSourceCount(s) ==
  /\ mainPc = "loop"
  /\ Kind(s) = "source"
  /\ pc[s] = "rhc"
  /\ \A u \in RhcOf(config, s) : pc[u] = "succeeded"
  /\ pc' = [pc EXCEPT ![s] = "succeeded"]
  /\ createdSourcesTotal' = createdSourcesTotal + 1
  /\ incs' = [incs EXCEPT ![s] = @ + 1]
  /\ UNCHANGED <<catVars, buildVars, config, ConcurrentRequests,
                 createdApplicationsTotal, createdAuthenticationsTotal,
                 createdEndpointsTotal, createdRhcConnectionsTotal, mainVars,
                 typeId, resp, calls, faults>>

\* createSource(tenant) returns to main: the next tenant of the range.
seqCreateSourceReturn ==
  /\ mainPc = "loop"
  /\ tenant <= config.Tenants
  /\ \A s \in SourcesOfTenant(config, tenant) : pc[s] = "succeeded"
  /\ tenant' = tenant + 1
  /\ UNCHANGED <<catVars, buildVars, config, ConcurrentRequests, counterVars,
                 mainPc, health, report, taskVars, faults>>

NextSequential ==
  \/ performHealthCheck
  \/ mainInitializeDatabase
  \/ seqCreateSourceReturn
  \/ mainReport
  \/ mainExit
  \/ \E t \in DOMAIN pc : seqCreateSource(t)
  \/ \E t \in DOMAIN pc : seqCreateAuthenticationsSource(t)
  \/ \E t \in DOMAIN pc : seqCreateAuthentications(t)
  \/ \E t \in DOMAIN pc : seqCreateAuthenticationsSourceReturn(t)
  \/ \E t \in DOMAIN pc : seqCreateApplications(t)
  \/ \E t \in DOMAIN pc : seqCreateAuthenticationsApplication(t)
  \/ \E t \in DOMAIN pc : seqCreateApplicationsCount(t)
  \/ \E t \in DOMAIN pc : seqCreateApplicationsReturn(t)
  \/ \E t \in DOMAIN pc : seqCreateEndpoints(t)
  \/ \E t \in DOMAIN pc : seqCreateEndpointsReturn(t)
  \/ \E t \in DOMAIN pc : seqCreateRhcConnections(t)
  \/ \E t \in DOMAIN pc : seqCreateSourceCount(t)

\* The sequential program sends one request at a time; the channel of
\* config.ConcurrentRequests is not used.
InitSequential == Init /\ config.Capacity = 1

SpecSequential == InitSequential /\ [][NextSequential]_vars

\* The counters the loops of the sequential program end with: each source
\* with its authentications, its applications, each with its
\* authentications, its endpoints and its rhc connections.
SequentialCounters(c) ==
  LET perApplication ==
        [applications |-> 1, authentications |-> c.AuthenticationsPerResource]
      perSource ==
        [sources |-> 1,
         authentications |->
           c.AuthenticationsPerResource
             + c.ApplicationsPerSource * perApplication.authentications,
         applications |-> c.ApplicationsPerSource * perApplication.applications,
         endpoints |-> c.EndpointsPerSource,
         rhcConnections |-> c.RhcConnectionsPerTenant]
  IN [k \in DOMAIN perSource |-> c.Tenants * c.SourcesPerTenant * perSource[k]]

\* C31: a unit is left only when its creation succeeded, and it is reached
\* only when the units before it in its loop are done; when the statistics
\* are logged, every unit was created and counted, and each counter is the
\* number of units of its kind the configuration asks for.
C31_NoUnitDropped ==
  /\ \A t \in DOMAIN pc :
       /\ pc[t] # "unspawned" => Created(resp[t])
       /\ incs[t] = (IF pc[t] = "succeeded" THEN 1 ELSE 0)
  /\ \A t, u \in DOMAIN pc :
       (/\ Kind(t) = Kind(u)
        /\ ParentOf(t) = ParentOf(u)
        /\ t[1] = u[1]
        /\ Index(u) < Index(t)
        /\ pc[t] # "unspawned") => pc[u] = "succeeded"
  /\ report.read =>
       /\ \A t \in DOMAIN pc : pc[t] = "succeeded"
       /\ report.counters = SequentialCounters(config)
       /\ Counters = report.counters

\* The statistics were logged after an endpoint that took two calls, with
\* a source, an authentication and the endpoint counted.
C31_Witness ==
  /\ report.read
  /\ report.counters.sources >= 1
  /\ report.counters.authentications >= 1
  /\ \E t \in DOMAIN pc : Kind(t) = "endpoint" /\ calls[t] = 2

\* C32: while the last call for a unit is a failed one, the program is
\* still at that unit, about to send its request again: the unit is not
\* created, no unit after it has had a call, nothing was added to a counter
\* for it, and the statistics are not logged.
C32_FailingUnitStalls ==
  \A t \in DOMAIN pc :
    (calls[t] > 0 /\ ~Created(resp[t])) =>
      /\ AtUnit(t)
      /\ incs[t] = 0
      /\ ~report.read
      /\ mainPc = "loop"
      /\ \A u \in DOMAIN pc \ {t} : pc[u] = "unspawned" => calls[u] = 0

\* The second call for an endpoint has failed like the first, after the
\* source and an authentication were created.
C32_Witness ==
  \E t \in DOMAIN pc :
    /\ Kind(t) = "endpoint"
    /\ calls[t] = 2
    /\ resp[t] = "false"
    /\ AtUnit(t)
    /\ createdAuthenticationsTotal >= 1

\* C33: when main has returned, every task that was started has ended, or
\* is inside a call that has not returned.
C33_EveryTaskEnds ==
  mainPc = "exited" =>
    \A t \in Spawned : Terminal(t) \/ pc[t] = "inflight"

\* C35: with a backend that creates everything, the statistics of the
\* concurrent program are the counters the sequential program ends with.
C35_ConcurrentReportsSequentialCounters ==
  (faults = 0 /\ report.read) => report.counters = SequentialCounters(config)

====
